---- MODULE Spec2Model ----
(***************************************************************************)
(* Conversation state machine of the YourTranslator LINE bot               *)
(* (src/index.js, latest revision, lines 1606-2829): the webhook that runs *)
(* every event of a batch through handleEvent in parallel, the users table *)
(* (Supabase), the generation backend (OpenAI) and the reply transport.    *)
(*                                                                         *)
(* A text is a sequence of tokens.  A token stands for one literal of the  *)
(* source ('TRANSLATE_TO_EN:::', 'トーン:', ...) or for one character of a  *)
(* script class, so startsWith / === / includes / replace / trim of the    *)
(* source are computed on sequences.                                       *)
(***************************************************************************)
EXTENDS Naturals, Sequences, FiniteSets, TLC

(* ------------------------------------------------------------------ *)
(* Bounds                                                              *)
(* ------------------------------------------------------------------ *)
\* longest text (in tokens) enumerated for the pure dispatch function
MaxTextLen == 2
\* most events one webhook request delivers (handled in parallel)
MaxBatch == 2
\* cap of the counter of consecutive guidance replies
MaxStreak == 2
\* longest text (in characters) enumerated for detectLanguage
MaxScriptLen == 6
\* longest glossary (in entries) enumerated for the reverse text
MaxGlossary == 2
\* calendar dates the quota revision runs through
MaxDays == 2
\* backend calls counted within one calendar date
MaxDayCalls == 7

(* ------------------------------------------------------------------ *)
(* Tokens and texts                                                    *)
(* ------------------------------------------------------------------ *)
\* literals of handleEvent.  The Japanese literals are written in romaji:
\*   herupu = 'ヘルプ', hoomu = 'ホーム', tsukaikata = '使い方', settei = '設定',
\*   [settei] reberu = '[設定] レベル', [settei] eiken-reberu = '[設定] 英検レベル',
\*   [settei] youto = '[設定] 用途', [settei] buntai = '[設定] 文体',
\*   [settei] eigo-taipu = '[設定] 英語タイプ',
\*   [settei] kantan-settei = '[設定] かんたん設定',
\*   toon: = 'トーン:', kono-eibun-de = 'この英文で',
\*   kajuaru = 'カジュアル', teinei = '丁寧', bijinesu = 'ビジネス'
PrefixTokens == {"TRANSLATE_TO_EN:::", "TRANSLATE_TO_JA:::", "SET_LEVEL_EIKEN_",
                 "SET_USAGE_", "SET_TONE_", "SET_EN_STYLE_", "SET_EASY_PROFILE_"}
NavTokens == {"herupu", "hoomu", "tsukaikata", "settei"}
MenuTokens == {"[settei] reberu", "[settei] eiken-reberu", "[settei] youto", "[settei] buntai",
               "[settei] eigo-taipu", "[settei] kantan-settei"}
ToneWords == {"kajuaru", "teinei", "bijinesu"}
\* one kanji/kana character, one lower-case and one upper-case Latin letter,
\* one digit or symbol, one white-space character
CharTokens == {"j", "e", "E", "x", " "}
\* suffixes the quick-reply menus append to the SET_* prefixes
SuffixTokens == {"CASUAL", "POLITE", "BUSINESS", "MAIL_INTERNAL", "MAIL_EXTERNAL",
                 "AMERICAN", "BRITISH", "PRE2", "2", "4"}
Tokens == PrefixTokens \cup NavTokens \cup MenuTokens \cup ToneWords
            \cup CharTokens \cup SuffixTokens \cup {"toon:", "kono-eibun-de"}

\* /[一-龯ぁ-んァ-ン]/ matches some character of the token
TokHasJa(t) == t \in NavTokens \cup MenuTokens \cup ToneWords
                     \cup {"toon:", "kono-eibun-de", "j"}
\* /[A-Za-z]/ matches some character of the token
TokHasEn(t) == t \in PrefixTokens \cup {"e", "E"}
                     \cup (SuffixTokens \ {"2", "4"})

IsSpace(t) == t = " "

\* String.prototype.trim
RECURSIVE TrimLeft(_)
TrimLeft(s) == IF s # <<>> /\ IsSpace(Head(s)) THEN TrimLeft(Tail(s)) ELSE s
RECURSIVE TrimRight(_)
TrimRight(s) == IF s # <<>> /\ IsSpace(s[Len(s)])
                THEN TrimRight(SubSeq(s, 1, Len(s) - 1)) ELSE s
Trim(s) == TrimRight(TrimLeft(s))

\* String.prototype.startsWith / includes for a literal of one token
StartsWith(s, t) == s # <<>> /\ Head(s) = t
Includes(s, t) == \E i \in 1..Len(s) : s[i] = t

\* variant: every occurrence removed (replaceAll)
RECURSIVE RemoveAll(_, _)
RemoveAll(s, t) ==
  IF s = <<>> THEN <<>>
  ELSE IF Head(s) = t THEN RemoveAll(Tail(s), t)
  ELSE <<Head(s)>> \o RemoveAll(Tail(s), t)

\* String.prototype.replace(literal, ''): removes the first occurrence only
RECURSIVE RemoveFirst(_, _)
RemoveFirst(s, t) ==
  IF s = <<>> THEN <<>>
  ELSE IF Head(s) = t THEN Tail(s)
  ELSE <<Head(s)>> \o RemoveFirst(Tail(s), t)

\* all texts of at most n tokens over the alphabet A
TextsUpTo(A, n) == UNION {[1..k -> A] : k \in 0..n}

(* ------------------------------------------------------------------ *)
(* detectLanguage  (src/index.js:1712-1720)                            *)
(* ------------------------------------------------------------------ *)
detectLanguage(text) ==
  LET hasJa == \E i \in 1..Len(text) : TokHasJa(text[i])
      hasEn == \E i \in 1..Len(text) : TokHasEn(text[i])
  IN  IF hasJa /\ hasEn THEN "mixed"
      ELSE IF hasJa THEN "ja"
      ELSE IF hasEn THEN "en"
      ELSE "other"

(* ------------------------------------------------------------------ *)
(* handleEvent: the dispatch chain  (src/index.js:2050-2144)           *)
(* The result names the handler the code returns into and the text    *)
(* argument it passes.                                                 *)
(* ------------------------------------------------------------------ *)
Branch(h, a) == [handler |-> h, arg |-> a]

\* variant: a text of neither script is translated like Japanese
DispatchFreeTextNoUnsupported(text) ==
  LET lang == detectLanguage(text)
  IN  IF lang = "en" THEN Branch("handleEnToJa", text)
      ELSE IF lang = "mixed" THEN Branch("handleMixed", text)
      ELSE Branch("handleJaToEn", text)

DispatchFreeText(text) ==
  LET lang == detectLanguage(text)
  IN  IF lang = "ja" THEN Branch("handleJaToEn", text)
      ELSE IF lang = "en" THEN Branch("handleEnToJa", text)
      ELSE IF lang = "mixed" THEN Branch("handleMixed", text)
      ELSE Branch("replyUnsupported", text)

\* variant: the accept phrase tested before the tone-change prefix
DispatchAcceptBeforeTone(text) ==
  IF Includes(text, "kono-eibun-de")
    THEN Branch("handleAcceptCurrentEnglish", text)
  ELSE IF StartsWith(text, "toon:")
    THEN Branch("handleToneChange", RemoveFirst(text, "toon:"))
  ELSE DispatchFreeText(text)

DispatchToneAccept(text) ==
  IF StartsWith(text, "toon:")
    THEN Branch("handleToneChange", RemoveFirst(text, "toon:"))
  ELSE IF Includes(text, "kono-eibun-de")
    THEN Branch("handleAcceptCurrentEnglish", text)
  ELSE DispatchFreeText(text)

DispatchSettings(text) ==
  IF text = <<"[settei] reberu">> THEN Branch("replyLevelRoot", text)
  ELSE IF text = <<"[settei] eiken-reberu">> THEN Branch("replyLevelEiken", text)
  ELSE IF StartsWith(text, "SET_LEVEL_EIKEN_") THEN Branch("handleSetLevelEiken", text)
  ELSE IF text = <<"[settei] youto">> THEN Branch("replyUsageScene", text)
  ELSE IF StartsWith(text, "SET_USAGE_") THEN Branch("handleSetUsageScene", text)
  ELSE IF text = <<"[settei] buntai">> THEN Branch("replyToneSetting", text)
  ELSE IF StartsWith(text, "SET_TONE_") THEN Branch("handleSetTone", text)
  ELSE IF text = <<"[settei] eigo-taipu">> THEN Branch("replyEnglishStyle", text)
  ELSE IF StartsWith(text, "SET_EN_STYLE_") THEN Branch("handleSetEnglishStyle", text)
  ELSE IF text = <<"[settei] kantan-settei">> THEN Branch("replyEasySetup", text)
  ELSE IF StartsWith(text, "SET_EASY_PROFILE_") THEN Branch("handleEasyProfileSelect", text)
  ELSE DispatchToneAccept(text)

DispatchNavigation(text) ==
  IF text = <<"herupu">> THEN Branch("replyHelp", text)
  ELSE IF text = <<"hoomu">> THEN Branch("replyHome", text)
  ELSE IF text = <<"tsukaikata">> THEN Branch("replyUsage", text)
  ELSE IF text = <<"settei">> THEN Branch("replySettings", text)
  ELSE DispatchSettings(text)

\* variant: the accept phrase tested at the head of the chain
DispatchAcceptFirst(text) ==
  IF Includes(text, "kono-eibun-de")
    THEN Branch("handleAcceptCurrentEnglish", text)
  ELSE IF StartsWith(text, "TRANSLATE_TO_EN:::")
    THEN Branch("handleJaToEn", RemoveFirst(text, "TRANSLATE_TO_EN:::"))
  ELSE IF StartsWith(text, "TRANSLATE_TO_JA:::")
    THEN Branch("handleEnToJa", RemoveFirst(text, "TRANSLATE_TO_JA:::"))
  ELSE DispatchNavigation(text)

Dispatch(text) ==
  IF StartsWith(text, "TRANSLATE_TO_EN:::")
    THEN Branch("handleJaToEn", RemoveFirst(text, "TRANSLATE_TO_EN:::"))
  ELSE IF StartsWith(text, "TRANSLATE_TO_JA:::")
    THEN Branch("handleEnToJa", RemoveFirst(text, "TRANSLATE_TO_JA:::"))
  ELSE DispatchNavigation(text)


(* ------------------------------------------------------------------ *)
(* The lowercase-only revision (src/unnamed/part_000:1587-1987)        *)
(* ------------------------------------------------------------------ *)
\* [puremiamu] kuwashii-kaisetsu = '[プレミアム] 詳しい解説'
PremiumToken == "[puremiamu] kuwashii-kaisetsu"
\* /[a-z]/ matches some character of the token
TokHasLowerEn(t) == t = "e"
\* /[一-龯ぁ-んァ-ン]/ matches some character of the token
TokHasJaLowercase(t) == TokHasJa(t) \/ t = PremiumToken

\* variant: the Latin test of the other revisions, /[A-Za-z]/
detectLanguageAnyCase(text) ==
  LET hasJa == \E i \in 1..Len(text) : TokHasJaLowercase(text[i])
      hasEn == \E i \in 1..Len(text) : TokHasEn(text[i])
  IN  IF hasJa /\ hasEn THEN "mixed"
      ELSE IF hasJa THEN "ja"
      ELSE IF hasEn THEN "en"
      ELSE "other"

\* detectLanguage, lines 1591-1599
detectLanguageLowercase(text) ==
  LET hasJa == \E i \in 1..Len(text) : TokHasJaLowercase(text[i])
      hasRealEn == \E i \in 1..Len(text) : TokHasLowerEn(text[i])
  IN  IF hasJa /\ hasRealEn THEN "mixed"
      ELSE IF hasJa THEN "ja"
      ELSE IF hasRealEn THEN "en"
      ELSE "other"

\* handleEvent, lines 1898-1987
DispatchLowercase(text) ==
  IF StartsWith(text, "TRANSLATE_TO_EN:::")
    THEN Branch("handleJaToEn", RemoveFirst(text, "TRANSLATE_TO_EN:::"))
  ELSE IF StartsWith(text, "TRANSLATE_TO_JA:::")
    THEN Branch("handleEnToJa", RemoveFirst(text, "TRANSLATE_TO_JA:::"))
  ELSE IF text = <<PremiumToken>> THEN Branch("replyPremiumInfo", text)
  ELSE IF text = <<"herupu">> THEN Branch("replyHelp", text)
  ELSE IF text = <<"hoomu">> THEN Branch("replyHome", text)
  ELSE IF text = <<"tsukaikata">> THEN Branch("replyUsage", text)
  ELSE IF text = <<"[settei] reberu">> THEN Branch("replyLevelRoot", text)
  ELSE IF text = <<"[settei] eiken-reberu">> THEN Branch("replyLevelEiken", text)
  ELSE IF StartsWith(text, "SET_LEVEL_EIKEN_") THEN Branch("handleSetLevelEiken", text)
  ELSE IF text = <<"[settei] youto">> THEN Branch("replyUsageScene", text)
  ELSE IF StartsWith(text, "SET_USAGE_") THEN Branch("handleSetUsageScene", text)
  ELSE IF text = <<"[settei] buntai">> THEN Branch("replyToneSetting", text)
  ELSE IF StartsWith(text, "SET_TONE_") THEN Branch("handleSetTone", text)
  ELSE IF text = <<"[settei] eigo-taipu">> THEN Branch("replyEnglishStyle", text)
  ELSE IF StartsWith(text, "SET_EN_STYLE_") THEN Branch("handleSetEnglishStyle", text)
  ELSE IF StartsWith(text, "toon:")
    THEN Branch("handleToneChange", RemoveFirst(text, "toon:"))
  ELSE IF Includes(text, "kono-eibun-de")
    THEN Branch("handleAcceptCurrentEnglish", text)
  ELSE LET lang == detectLanguageLowercase(text)
       IN  IF lang = "ja" THEN Branch("handleJaToEn", text)
           ELSE IF lang = "en" THEN Branch("handleEnToJa", text)
           ELSE IF lang = "mixed" THEN Branch("handleMixed", text)
           ELSE Branch("replyUnsupported", text)

(* ------------------------------------------------------------------ *)
(* Values                                                              *)
(* ------------------------------------------------------------------ *)
\* JavaScript null / undefined in a text column; '' is the empty sequence
NullText == <<"<null>">>
\* !value for a text
Falsy(t) == t = NullText \/ t = <<>>

\* English produced by the backend.  A non-empty output keeps the prompt it
\* was generated from: the source text and the tone of the user prompt.
NoOutput == [kind |-> "null", src |-> <<>>, tone |-> "none"]
EmptyOutput == [kind |-> "empty", src |-> <<>>, tone |-> "none"]
Generated(src, tone) == [kind |-> "text", src |-> src, tone |-> tone]
\* !en for an output
FalsyOutput(en) == en.kind # "text"

(* ------------------------------------------------------------------ *)
(* The users table  (src/index.js:1651-1708)                           *)
(* ------------------------------------------------------------------ *)
\* variant: another default level
NewUserOtherLevel ==
  [level_type |-> "eiken", level_value |-> <<"PRE2">>, english_style |-> "neutral",
   usage_default |-> "CHAT_FRIEND", tone_default |-> "polite",
   last_source_ja |-> <<"<null>">>, last_output_en |-> NoOutput,
   last_source_en |-> <<"<null>">>, last_output_ja |-> <<"<null>">>,
   last_mode |-> "null"]

\* the level values of each scheme, from the comment on newUser (lines
\* 1671-1672); no command of this revision stores the scheme toeic
EikenValues == { <<"5">>, <<"4">>, <<"3">>, <<"pre2">>, <<"2">>, <<"pre1">>, <<"1">> }
RoughValues == { <<"1">>, <<"2">>, <<"3">>, <<"4">> }

\* newUser of getOrCreateUser: the columns the insert leaves out are NULL
NewUser ==
  [level_type |-> "eiken", level_value |-> <<"2">>, english_style |-> "neutral",
   usage_default |-> "CHAT_FRIEND", tone_default |-> "polite",
   last_source_ja |-> NullText, last_output_en |-> NoOutput,
   last_source_en |-> NullText, last_output_ja |-> NullText,
   last_mode |-> "null"]

NoPatch == [none |-> TRUE]

\* supabase.from('users').update({ ...patch }): the columns of the patch
\* are overwritten, every other column keeps its value
ApplyPatch(row, p) ==
  LET has(f) == f \in DOMAIN p
  IN  [level_type     |-> IF has("level_type") THEN p.level_type ELSE row.level_type,
       level_value    |-> IF has("level_value") THEN p.level_value ELSE row.level_value,
       english_style  |-> IF has("english_style") THEN p.english_style ELSE row.english_style,
       usage_default  |-> IF has("usage_default") THEN p.usage_default ELSE row.usage_default,
       tone_default   |-> IF has("tone_default") THEN p.tone_default ELSE row.tone_default,
       last_source_ja |-> IF has("last_source_ja") THEN p.last_source_ja ELSE row.last_source_ja,
       last_output_en |-> IF has("last_output_en") THEN p.last_output_en ELSE row.last_output_en,
       last_source_en |-> IF has("last_source_en") THEN p.last_source_en ELSE row.last_source_en,
       last_output_ja |-> IF has("last_output_ja") THEN p.last_output_ja ELSE row.last_output_ja,
       last_mode      |-> IF has("last_mode") THEN p.last_mode ELSE row.last_mode]

(* ------------------------------------------------------------------ *)
(* The reverse direction: backend response -> { ja, glossary }         *)
(* explainEnglishToJapaneseWithGlossary  (src/index.js:1949-1971)      *)
(* ------------------------------------------------------------------ *)
\* Tokens of a backend response: the code fence of three backticks
\* (<fence>), a run of Latin letters ("json"), a newline (<nl>), a blank,
\* a sentence that is no JSON ("wayaku-bun"), and whole JSON documents.
JsonDocs == {"{ja,glossary}", "{ja}", "{glossary}", "{ja,glossary:{}}",
             "{ja,glossary:[null]}", "null", "42"}
RawTokens == {"<fence>", "json", "<nl>", " ", "wayaku-bun"} \cup JsonDocs

\* [a-zA-Z] matches every character of the token
RawIsLetters(t) == t \in {"json", "null"}
RawIsSpace(t) == t \in {"<nl>", " "}

\* a glossary entry as JSON.parse returns it; isNull marks the value null
Entry(term, meaning, note) ==
  [isNull |-> FALSE, term |-> term, meaning_ja |-> meaning, note_ja |-> note]
NullEntry == [isNull |-> TRUE, term |-> "", meaning_ja |-> "", note_ja |-> ""]
SampleGlossary == <<Entry("reschedule", "enki-suru", ""), Entry("", "x", ""),
                    Entry("if possible", "dekireba", "teinei")>>

\* JSON.parse of one document: the kind of value and the members read later
JsonValue(d) ==
  [isNull |-> d = "null",
   isObject |-> d \notin {"null", "42"},
   ja |-> IF d \in {"{ja,glossary}", "{ja}", "{ja,glossary:{}}", "{ja,glossary:[null]}"}
          THEN <<"wayaku">> ELSE NullText,
   glossaryIsArray |-> d \in {"{ja,glossary}", "{glossary}", "{ja,glossary:[null]}"},
   glossary |-> IF d \in {"{ja,glossary}", "{glossary}"} THEN SampleGlossary
                ELSE IF d = "{ja,glossary:[null]}" THEN <<NullEntry>>
                ELSE <<>>]

\* String.prototype.trim on a response
RECURSIVE RawTrimLeft(_)
RawTrimLeft(s) == IF s # <<>> /\ RawIsSpace(Head(s)) THEN RawTrimLeft(Tail(s)) ELSE s
RECURSIVE RawTrimRight(_)
RawTrimRight(s) == IF s # <<>> /\ RawIsSpace(s[Len(s)])
                   THEN RawTrimRight(SubSeq(s, 1, Len(s) - 1)) ELSE s
RawTrim(s) == RawTrimRight(RawTrimLeft(s))

\* the [a-zA-Z]* of the opening-fence pattern
RECURSIVE DropLetters(_)
DropLetters(s) == IF s # <<>> /\ RawIsLetters(Head(s)) THEN DropLetters(Tail(s)) ELSE s

\* raw.replace(/^```[a-zA-Z]*\n?/, '')  (raw starts with the fence)
StripOpeningFence(s) ==
  LET afterTag == DropLetters(Tail(s))
  IN  IF afterTag # <<>> /\ Head(afterTag) = "<nl>" THEN Tail(afterTag) ELSE afterTag

\* .replace(/```$/, '')
StripClosingFence(s) ==
  IF s # <<>> /\ s[Len(s)] = "<fence>" THEN SubSeq(s, 1, Len(s) - 1) ELSE s

\* lines 1952-1955
StripFences(content) ==
  LET raw == RawTrim(content)
  IN  IF raw # <<>> /\ Head(raw) = "<fence>"
      THEN RawTrim(StripClosingFence(StripOpeningFence(raw)))
      ELSE raw

\* JSON.parse(raw) returns (white space around one document is allowed)
JsonParses(raw) == Len(RawTrim(raw)) = 1 /\ RawTrim(raw)[1] \in JsonDocs

\* variant: a response that does not parse is raised to the caller
ExplainResultRaising(content) ==
  LET raw == StripFences(content)
  IN  IF ~JsonParses(raw)
      THEN [threw |-> TRUE, parseFailed |-> TRUE, ja |-> raw, glossary |-> <<>>]
      ELSE LET parsed == JsonValue(RawTrim(raw)[1])
           IN  [threw |-> parsed.isNull, parseFailed |-> FALSE,
                ja |-> IF Falsy(parsed.ja) THEN <<>> ELSE parsed.ja,
                glossary |-> IF parsed.glossaryIsArray THEN parsed.glossary ELSE <<>>]

\* The outcome of explainEnglishToJapaneseWithGlossary for a response:
\* threw marks the TypeError of reading parsed.ja of null (line 1969).
ExplainResult(content) ==
  LET raw == StripFences(content)
  IN  IF ~JsonParses(raw)
      THEN [threw |-> FALSE, parseFailed |-> TRUE, ja |-> raw, glossary |-> <<>>]
      ELSE LET parsed == JsonValue(RawTrim(raw)[1])
           IN  IF parsed.isNull
               THEN [threw |-> TRUE, parseFailed |-> FALSE, ja |-> <<>>, glossary |-> <<>>]
               ELSE [threw |-> FALSE, parseFailed |-> FALSE,
                     ja |-> IF Falsy(parsed.ja) THEN <<>> ELSE parsed.ja,
                     glossary |-> IF parsed.glossaryIsArray THEN parsed.glossary ELSE <<>>]

\* one rendered glossary line: term, meaning and the note decoration
GlossaryLine(g) ==
  [term |-> g.term, meaning |-> g.meaning_ja, hasNote |-> g.note_ja # "", note |-> g.note_ja]

\* variant: every entry rendered, with or without a term
GlossaryLinesAll(glossary) == [i \in 1..Len(glossary) |-> GlossaryLine(glossary[i])]

\* glossary.forEach of handleEnToJa (lines 2765-2771): entries without a term
\* are skipped
RECURSIVE GlossaryLines(_)
GlossaryLines(glossary) ==
  IF glossary = <<>> THEN <<>>
  ELSE IF Head(glossary).term = "" THEN GlossaryLines(Tail(glossary))
  ELSE <<GlossaryLine(Head(glossary))>> \o GlossaryLines(Tail(glossary))

\* glossary.forEach of the earlier handleEnToJa (lines 1508-1520): an entry is
\* rendered when it has a term and a meaning or a note
RECURSIVE GlossaryLinesEarlier(_)
GlossaryLinesEarlier(glossary) ==
  IF glossary = <<>> THEN <<>>
  ELSE IF Head(glossary).term = "" THEN GlossaryLinesEarlier(Tail(glossary))
  ELSE IF Head(glossary).meaning_ja = "" /\ Head(glossary).note_ja = ""
    THEN GlossaryLinesEarlier(Tail(glossary))
  ELSE <<GlossaryLine(Head(glossary))>> \o GlossaryLinesEarlier(Tail(glossary))

\* reading g.term of a null entry raises a TypeError (line 2766)
GlossaryThrows(glossary) == \E i \in 1..Len(glossary) : glossary[i].isNull

\* resultText of handleEnToJa (lines 2762-2772)
ReverseText(ja, glossary) ==
  [ja |-> ja, section |-> Len(glossary) > 0, lines |-> GlossaryLines(glossary)]
NoReverseText == [ja |-> <<>>, section |-> FALSE, lines |-> <<>>]

(* ------------------------------------------------------------------ *)
(* Outbound messages                                                   *)
(* ------------------------------------------------------------------ *)
\* One message of a lineClient.replyMessage call: what it is, the English
\* or the reverse text it carries, the payloads of its own quick-reply
\* options and the shared quick-reply set appended to it.
Msg(kind, en, rev, options, quick) ==
  [kind |-> kind, en |-> en, rev |-> rev, options |-> options, quick |-> quick]
Static(kind, quick) == Msg(kind, NoOutput, NoReverseText, <<>>, quick)

(* ------------------------------------------------------------------ *)
(* Handlers up to their first await                                    *)
(* ------------------------------------------------------------------ *)
NoCall == [kind |-> "none", src |-> <<>>, tone |-> "none"]
Call(kind, src, tone) == [kind |-> kind, src |-> src, tone |-> tone]
NoResult == [en |-> NoOutput, text |-> NoReverseText]

\* what a handler does next: wait for the backend (pc "generate"), wait for
\* the store (pc "update"), or reply and finish (pc "done")
Generate(c) == [pc |-> "generate", call |-> c, patch |-> NoPatch, reply |-> <<>>]
Update(p) == [pc |-> "update", call |-> NoCall, patch |-> p, reply |-> <<>>]
Reply(msgs) == [pc |-> "done", call |-> NoCall, patch |-> NoPatch, reply |-> msgs]

\* String.prototype.toLowerCase on the tokens that carry upper-case letters
LowerToken(t) ==
  CASE t = "E" -> "e"
    [] t = "PRE2" -> "pre2"
    [] t = "CASUAL" -> "casual"
    [] t = "POLITE" -> "polite"
    [] t = "BUSINESS" -> "business"
    [] t = "MAIL_INTERNAL" -> "mail_internal"
    [] t = "MAIL_EXTERNAL" -> "mail_external"
    [] t = "AMERICAN" -> "american"
    [] t = "BRITISH" -> "british"
    [] t = "TRANSLATE_TO_EN:::" -> "translate_to_en:::"
    [] t = "TRANSLATE_TO_JA:::" -> "translate_to_ja:::"
    [] t = "SET_LEVEL_EIKEN_" -> "set_level_eiken_"
    [] t = "SET_USAGE_" -> "set_usage_"
    [] t = "SET_TONE_" -> "set_tone_"
    [] t = "SET_EN_STYLE_" -> "set_en_style_"
    [] t = "SET_EASY_PROFILE_" -> "set_easy_profile_"
    [] OTHER -> t
ToLowerCase(s) == [i \in 1..Len(s) |-> LowerToken(s[i])]

\* variant: three independent tests, the last match wins
ResolveToneLastMatch(toneLabelJa, tone_default) ==
  IF Includes(toneLabelJa, "bijinesu") THEN "business"
  ELSE IF Includes(toneLabelJa, "teinei") THEN "polite"
  ELSE IF Includes(toneLabelJa, "kajuaru") THEN "casual"
  ELSE tone_default

\* handleToneChange, lines 2638-2650: the override for a label
ResolveTone(toneLabelJa, tone_default) ==
  IF Includes(toneLabelJa, "kajuaru") THEN "casual"
  ELSE IF Includes(toneLabelJa, "teinei") THEN "polite"
  ELSE IF Includes(toneLabelJa, "bijinesu") THEN "business"
  ELSE tone_default

\* generateEnglishFromJapanese, line 1873: toneOverride || user.tone_default
EffectiveTone(toneOverride, tone_default) ==
  IF toneOverride = "null" THEN tone_default ELSE toneOverride

\* variant: the regeneration starts from the text of the command
ToneChangeSourceFromCommand(u, toneLabelJa) == toneLabelJa

\* handleToneChange, line 2654: the text the regeneration starts from
ToneChangeSource(u, toneLabelJa) == u.last_source_ja

\* variant: no guard on a missing last_source_ja
handleToneChangeUnguarded(u, toneLabelJa) ==
  Generate(Call("tone", ToneChangeSource(u, toneLabelJa),
                EffectiveTone(ResolveTone(toneLabelJa, u.tone_default),
                              u.tone_default)))

\* handleToneChange, lines 2629-2656
handleToneChange(u, toneLabelJa) ==
  IF Falsy(u.last_source_ja)
  THEN Reply(<<Static("guidance_tone", "base")>>)
  ELSE Generate(Call("tone", ToneChangeSource(u, toneLabelJa),
                     EffectiveTone(ResolveTone(toneLabelJa, u.tone_default),
                                   u.tone_default)))

\* handleAcceptCurrentEnglish, lines 2673-2711
handleAcceptCurrentEnglish(u) ==
  IF FalsyOutput(u.last_output_en)
  THEN Reply(<<Static("guidance_accept", "base")>>)
  ELSE Generate(Call("lesson", <<>>, "none"))

\* handleJaToEn, lines 2733-2738
handleJaToEn(u, text) ==
  Generate(Call("forward", text, EffectiveTone("null", u.tone_default)))

\* handleEnToJa, lines 2756-2760
handleEnToJa(u, text) == Generate(Call("reverse", text, "none"))

\* variant: the options carry the markers without the text
handleMixedBarePayload(text) ==
  Reply(<<Msg("mixed", NoOutput, NoReverseText,
              << <<"TRANSLATE_TO_EN:::">>, <<"TRANSLATE_TO_JA:::">> >>, "base")>>)

\* handleMixed, lines 2791-2821: the two options of the choice, followed by
\* the shared navigation options
handleMixed(text) ==
  Reply(<<Msg("mixed", NoOutput, NoReverseText,
              << <<"TRANSLATE_TO_EN:::">> \o text, <<"TRANSLATE_TO_JA:::">> \o text >>,
              "base")>>)

\* handleSetLevelEiken, lines 2330-2336
handleSetLevelEiken(text) ==
  Update([level_type |-> "eiken",
          level_value |-> ToLowerCase(RemoveFirst(text, "SET_LEVEL_EIKEN_"))])

\* handleSetUsageScene, lines 2409-2415
handleSetUsageScene(text) ==
  Update([usage_default |->
            IF text = <<"SET_USAGE_", "MAIL_EXTERNAL">> THEN "MAIL_EXTERNAL"
            ELSE IF text = <<"SET_USAGE_", "MAIL_INTERNAL">> THEN "MAIL_INTERNAL"
            ELSE "CHAT_FRIEND"])

\* variant: the tone setting also resets the mode of the last turn
handleSetToneResettingMode(text) ==
  Update([tone_default |->
            IF text = <<"SET_TONE_", "BUSINESS">> THEN "business"
            ELSE IF text = <<"SET_TONE_", "CASUAL">> THEN "casual"
            ELSE "polite",
          last_mode |-> "null"])

\* handleSetTone, lines 2453-2459
handleSetTone(text) ==
  Update([tone_default |->
            IF text = <<"SET_TONE_", "BUSINESS">> THEN "business"
            ELSE IF text = <<"SET_TONE_", "CASUAL">> THEN "casual"
            ELSE "polite"])

\* handleSetEnglishStyle, lines 2512-2518
handleSetEnglishStyle(text) ==
  Update([english_style |->
            IF text = <<"SET_EN_STYLE_", "BRITISH">> THEN "british"
            ELSE IF text = <<"SET_EN_STYLE_", "AMERICAN">> THEN "american"
            ELSE "neutral"])

\* handleEasyProfileSelect, lines 2574-2606 (profile 3 has no token here)
handleEasyProfileSelect(text) ==
  LET profileNum == IF text = <<"SET_EASY_PROFILE_", "4">> THEN 4
                    ELSE IF text = <<"SET_EASY_PROFILE_", "2">> THEN 2
                    ELSE 1
  IN  Update([level_type |-> "rough",
              level_value |-> IF profileNum = 4 THEN <<"4">>
                              ELSE IF profileNum = 2 THEN <<"2">> ELSE <<"1">>,
              usage_default |-> IF profileNum = 4 THEN "MAIL_EXTERNAL" ELSE "CHAT_FRIEND",
              tone_default |-> IF profileNum = 4 THEN "business"
                               ELSE IF profileNum = 2 THEN "polite" ELSE "casual"])

\* handleEvent after getOrCreateUser returned u (lines 2050-2144): the
\* handler selected by Dispatch, run up to its first await
HandleEntry(text, u) ==
  LET b == Dispatch(text)
      h == b.handler
  IN  CASE h = "handleJaToEn" -> handleJaToEn(u, b.arg)
        [] h = "handleEnToJa" -> handleEnToJa(u, b.arg)
        [] h = "handleToneChange" -> handleToneChange(u, b.arg)
        [] h = "handleAcceptCurrentEnglish" -> handleAcceptCurrentEnglish(u)
        [] h = "handleMixed" -> handleMixed(b.arg)
        [] h = "handleSetLevelEiken" -> handleSetLevelEiken(b.arg)
        [] h = "handleSetUsageScene" -> handleSetUsageScene(b.arg)
        [] h = "handleSetTone" -> handleSetTone(b.arg)
        [] h = "handleSetEnglishStyle" -> handleSetEnglishStyle(b.arg)
        [] h = "handleEasyProfileSelect" -> handleEasyProfileSelect(b.arg)
        [] h = "replySettings" -> Generate(Call("example", <<"SAMPLE_JA">>,
                                                EffectiveTone("null", u.tone_default)))
        [] h = "replyEasySetup" -> Generate(Call("candidates", <<"SAMPLE_JA">>, "none"))
        [] h = "replyHome" -> Reply(<<Static(h, "home")>>)
        [] OTHER -> Reply(<<Static(h, "base")>>)

(* ------------------------------------------------------------------ *)
(* Handlers after an await                                             *)
(* ------------------------------------------------------------------ *)
\* variant: the lesson call outside any try/catch
CaughtExamplesOnly(kind) == kind \in {"example", "levelExample"}

\* variant: every backend call wrapped in try/catch
CaughtAll(kind) == TRUE

\* the backend calls wrapped in try/catch: the lesson (lines 2702-2714) and
\* the example sentences of the settings screens (2209-2217, 2340-2348)
Caught(kind) == kind \in {"lesson", "example", "levelExample"}

\* completion.choices[0]?.message?.content?.trim() || ''  (line 1902)
Content(c, outcome) == IF outcome = "text" THEN Generated(c.src, c.tone) ELSE EmptyOutput

\* variant: the tone-change stores the tone it generated with as the default
TonePatchStoringTone(en) ==
  [last_output_en |-> en, last_mode |-> "JA_TO_EN",
   tone_default |-> IF en.kind = "text" THEN en.tone ELSE "polite"]

\* the patches of updateUser in handleJaToEn (2740-2744), handleToneChange
\* (2658-2661) and handleEnToJa (2774-2778)
\* variant: the forward turn leaves last_mode as it was
ForwardPatchWithoutMode(text, en) == [last_source_ja |-> text, last_output_en |-> en]

\* variant: the forward turn writes the tone it generated with as the default
ForwardPatchStoringTone(text, en) ==
  [last_source_ja |-> text, last_output_en |-> en, last_mode |-> "JA_TO_EN",
   tone_default |-> IF en.kind = "text" THEN en.tone ELSE "polite"]

ForwardPatch(text, en) ==
  [last_source_ja |-> text, last_output_en |-> en, last_mode |-> "JA_TO_EN"]

\* variant: the tone-change leaves last_mode as it was
TonePatchWithoutMode(en) == [last_output_en |-> en]

TonePatch(en) == [last_output_en |-> en, last_mode |-> "JA_TO_EN"]
\* variant: the reverse turn resets the forward pair
ReversePatchClearingForward(text, ja) ==
  [last_source_en |-> text, last_output_ja |-> ja, last_mode |-> "EN_TO_JA",
   last_source_ja |-> NullText, last_output_en |-> NoOutput]

ReversePatch(text, ja) ==
  [last_source_en |-> text, last_output_ja |-> ja, last_mode |-> "EN_TO_JA"]

\* variant: the lesson before the copy-ready message
AcceptMessagesLessonFirst(u, lesson) ==
  << IF FalsyOutput(lesson) THEN Static("lesson_degraded", "base")
     ELSE Static("lesson", "base"),
     Msg("copy", u.last_output_en, NoReverseText, <<>>, "none") >>

\* handleAcceptCurrentEnglish, lines 2683-2728: the copy-ready message first,
\* then the lesson or, without a lesson text, the static closing line
AcceptMessages(u, lesson) ==
  << Msg("copy", u.last_output_en, NoReverseText, <<>>, "none"),
     IF FalsyOutput(lesson) THEN Static("lesson_degraded", "base")
     ELSE Static("lesson", "base") >>

\* A handler resumed with the backend's answer.  outcome is "throw", "empty"
\* or "text"; raw is the content of the answer to a reverse prompt.
AfterGenerate(u, c, outcome, raw) ==
  LET en == Content(c, outcome)
      ex == ExplainResult(raw)
  IN  CASE c.kind = "forward" -> [step |-> Update(ForwardPatch(c.src, en)),
                                  result |-> [en |-> en, text |-> NoReverseText]]
        [] c.kind = "tone" -> [step |-> Update(TonePatch(en)),
                               result |-> [en |-> en, text |-> NoReverseText]]
        [] c.kind = "reverse" ->
             [step |-> Update(ReversePatch(c.src, ex.ja)),
              result |-> [en |-> NoOutput, text |-> ReverseText(ex.ja, ex.glossary)]]
        [] c.kind = "lesson" -> [step |-> Reply(AcceptMessages(u, en)), result |-> NoResult]
        [] c.kind = "example" ->
             [step |-> Reply(<<Msg("replySettings", en, NoReverseText, <<>>, "settings")>>),
              result |-> NoResult]
        [] c.kind = "levelExample" ->
             [step |-> Reply(<<Msg("handleSetLevelEiken", en, NoReverseText, <<>>, "base")>>),
              result |-> NoResult]
        [] OTHER -> [step |-> Reply(<<Static("replyEasySetup", "base")>>), result |-> NoResult]

\* the TypeError of the reverse direction: parsed.ja of null (line 1969) or
\* g.term of a null glossary entry (line 2766)
ReverseThrows(raw) ==
  ExplainResult(raw).threw \/ GlossaryThrows(ExplainResult(raw).glossary)

\* A handler resumed with the row updateUser returned.
AfterUpdate(h, updated, r) ==
  CASE h = "handleJaToEn" -> Reply(<<Msg("forward", r.en, NoReverseText, <<>>, "tone")>>)
    [] h = "handleToneChange" -> Reply(<<Msg("tone", r.en, NoReverseText, <<>>, "tone")>>)
    [] h = "handleEnToJa" -> Reply(<<Msg("reverse", NoOutput, r.text, <<>>, "base")>>)
    [] h = "handleSetLevelEiken" ->
         Generate(Call("levelExample", <<"SAMPLE_JA">>,
                       EffectiveTone("null", updated.tone_default)))
    [] OTHER -> Reply(<<Static(h, "base")>>)

(* ------------------------------------------------------------------ *)
(* The user_settings revision  (src/unnamed/part_001, lines 70-1003):  *)
(* settings in the user_settings table, the last translation in an     *)
(* in-memory Map, store errors answered with defaults or null.         *)
(* Further literals in romaji: menyuu = 'メニュー',                      *)
(*   [settei] TOEIC-sukoa = '[設定] TOEICスコア',                        *)
(*   kono-eibun-de-yoi = 'この英文で良い'                                *)
(* ------------------------------------------------------------------ *)
DEFAULT_SETTINGS ==
  [english_level_type |-> "EIKEN", english_level_value |-> <<"EIKEN_", "2">>,
   english_style_default |-> "POLITE", english_variant |-> "JP"]

\* null in place of a settings object, and no entry in userContext
NullSettings == [null |-> TRUE]
IsNullSettings(x) == "null" \in DOMAIN x
NoContext == [null |-> TRUE]
HasContext(c) == "null" \notin DOMAIN c

\* supabase.from('user_settings').update(payload) on the row of the user
ApplyUpdates(row, u) ==
  LET has(f) == f \in DOMAIN u
  IN  [english_level_type |->
         IF has("english_level_type") THEN u.english_level_type ELSE row.english_level_type,
       english_level_value |->
         IF has("english_level_value") THEN u.english_level_value ELSE row.english_level_value,
       english_style_default |->
         IF has("english_style_default") THEN u.english_style_default
         ELSE row.english_style_default,
       english_variant |->
         IF has("english_variant") THEN u.english_variant ELSE row.english_variant]

SetToneTexts == {<<"SET_TONE_", "CASUAL">>, <<"SET_TONE_", "POLITE">>, <<"SET_TONE_", "BUSINESS">>}
SetVariantTexts == {<<"SET_VARIANT_", "JP">>, <<"SET_VARIANT_", "US">>, <<"SET_VARIANT_", "UK">>}

\* handleEvent of the revision, lines 780-974: the branch taken for a text
DispatchUserSettings(text) ==
  IF text = <<"hoomu">> \/ text = <<"menyuu">> THEN "replyHomeMenu"
  ELSE IF text = <<"settei">> THEN "replyHomeMenu"
  ELSE IF text = <<"tsukaikata">> THEN "replyHelp"
  ELSE IF text = <<"[settei] reberu">> THEN "replyLevelMenu"
  ELSE IF text = <<"[settei] eiken-reberu">> THEN "replyEikenMenu"
  ELSE IF text = <<"[settei] TOEIC-sukoa">> THEN "replyToeicMenu"
  ELSE IF text = <<"[settei] buntai">> THEN "replyToneMenu"
  ELSE IF text = <<"[settei] eigo-taipu">> THEN "replyVariantMenu"
  ELSE IF StartsWith(text, "SET_LEVEL_EIKEN_") THEN "SET_LEVEL_EIKEN"
  ELSE IF StartsWith(text, "SET_LEVEL_TOEIC_") THEN "SET_LEVEL_TOEIC"
  ELSE IF text \in SetToneTexts THEN "SET_TONE"
  ELSE IF text \in SetVariantTexts THEN "SET_VARIANT"
  ELSE IF text \in {<<"kajuaru">>, <<"teinei">>, <<"bijinesu">>} THEN "handleRetone"
  ELSE IF text = <<"kono-eibun-de-yoi">> THEN "handleAcceptSentence"
  ELSE "handleTranslate"

\* branches that reply without a store or backend call, branches that start
\* with getOrCreateUserSettings and branches that call updateUserSettings
ImmediateBranches == {"replyHelp", "replyLevelMenu", "replyEikenMenu", "replyToeicMenu"}
MenuBranches == {"replyHomeMenu", "replyToneMenu", "replyVariantMenu"}
UpdateBranches == {"SET_LEVEL_EIKEN", "SET_LEVEL_TOEIC", "SET_TONE", "SET_VARIANT"}

\* handleEvent, lines 758-778 and 975-976: a follow event is greeted, a text
\* message is dispatched, every other event falls through to the end
DispatchEvent(kind, text) ==
  IF kind = "follow" THEN "replyFollow"
  ELSE IF kind = "text" THEN DispatchUserSettings(text)
  ELSE "ignored"

\* the updates of the SET_* branches, lines 823-949
SettingsUpdates(text) ==
  IF StartsWith(text, "SET_LEVEL_EIKEN_")
    THEN [english_level_type |-> "EIKEN",
          english_level_value |-> <<"EIKEN_">> \o RemoveFirst(text, "SET_LEVEL_EIKEN_")]
  ELSE IF StartsWith(text, "SET_LEVEL_TOEIC_")
    THEN [english_level_type |-> "TOEIC",
          english_level_value |-> <<"TOEIC_">> \o RemoveFirst(text, "SET_LEVEL_TOEIC_")]
  ELSE IF text \in SetToneTexts THEN [english_style_default |-> text[2]]
  ELSE [english_variant |-> text[2]]

\* handleRetone, lines 613-616
RetoneOverride(toneLabel, settings) ==
  IF toneLabel = <<"bijinesu">> THEN "BUSINESS"
  ELSE IF toneLabel = <<"teinei">> THEN "POLITE"
  ELSE IF toneLabel = <<"kajuaru">> THEN "CASUAL"
  ELSE settings.english_style_default

\* the guards of handleRetone (602-610) and handleAcceptSentence (681-689)
MissingContext(h, ctx) ==
  \/ h = "handleRetone" /\ (~HasContext(ctx) \/ Falsy(ctx.lastSourceText))
  \/ h = "handleAcceptSentence" /\ (~HasContext(ctx) \/ FalsyOutput(ctx.lastCandidate))

\* one message of a reply of the revision
SMsg(kind, en) == [kind |-> kind, en |-> en]

(* ------------------------------------------------------------------ *)
(* State                                                               *)
(* ------------------------------------------------------------------ *)
Slots == 1..MaxBatch

VARIABLES
  users,     \* rows of the users table for the one line_user_id, in order
  res,       \* status of the webhook response: "none", "200" or "500"
  pc,        \* per event: idle, ignored, select, insert, generate, update, done,
             \* thrown
  etext,     \* per event: the trimmed text of the message
  ekind,     \* per event: "text", "image" (a message of another type),
             \* "follow" (an event that is no message); "none" when idle
  reads,     \* per event: selects sent to the users table
  writes,    \* per event: inserts and updates sent to the users table
  user,      \* per event: the row getOrCreateUser returned
  call,      \* per event: the last backend call of the handler
  result,    \* per event: what the handler built from the backend's answer
  patch,     \* per event: the patch of the pending updateUser
  replies,   \* per event: the replyMessage calls, each a sequence of messages
  genCalls,  \* per event: backend calls made
  failure,   \* per event: what the handler threw ("none" when it did not)
  answer,    \* per event: the backend's last answer: outcome and content
  streak,    \* consecutive events answered with a guidance message
  probe,     \* input of the dispatch function checked on its own
  routed,    \* its result
  choice,    \* the quick-reply payload sent back after handleMixed
  remembered,  \* one earlier event of the process: its text, the row it was
               \* handled with and whether it called the backend
  \* the user_settings revision (src/unnamed/part_001, lines 70-1003)
  settingsRows,  \* rows of the user_settings table for the one line_user_id
  userContext,   \* the entry of the in-memory Map for the user
  spc,           \* the event: idle, ignored, read, create, write, complete, done,
                 \* thrown
  stext,         \* the trimmed text of the event
  skind,         \* the kind of the event: "text", "image", "follow"; "none" at start
  held,          \* the settings object the handler holds
  sreplies,      \* the replyMessage calls of the event
  sfailure,      \* what the handler threw ("none" when it did not)
  storeFailed,   \* a call to the store failed during the event
  sremembered,   \* one earlier event of the process: its text, the rows and the
                 \* Map entry it started with, and whether it got the guidance
  \* the quota revision (src/unnamed/part_000, lines 1401-2510)
  usageCounters, \* the entry of the in-memory usageCounters object for the user
  today,         \* the calendar date todayString() returns, as a day number
  premium,       \* the user's id is listed in PREMIUM_USER_IDS
  quotaUser,     \* the stored row: length of last_source_ja, last_output_en
  dayCalls,      \* backend calls made for the user since the date last changed
  quotaReply,    \* the reply of the last event
  \* the level-label revision (src/index.js, lines 1-259)
  labelRows,     \* rows of the users table for the one user_id: their level_label
  labelText,     \* the text of the last event, as sent
  labelReply,    \* the reply of the last event ("none": the handler threw)
  labelCalls,    \* calls of translateWithLevel made by the last event
  \* the webhooks that answer first (src/unnamed/part_001, lines 20-53 and
  \* 981-992; src/unnamed/part_002) with handlers that run side by side
  webhook,       \* the revision that runs
  sent,          \* per event: the status sent for the request that carried it
  cpc,           \* per event: idle, ignored, settings, echo, generate, reply,
                 \* done, failed
  ctext,         \* per event: the text of the message
  cctx,          \* per event: the entry of userContext handleRetone read
  caught         \* per event: the catch of the webhook ran for its handler

botVars == <<users, res, pc, etext, ekind, reads, writes, user, call, result, patch,
             replies, genCalls, failure, answer, streak, probe, routed, choice,
             remembered>>
settingsVars == <<settingsRows, userContext, spc, stext, skind, held, sreplies,
                  sfailure, storeFailed, sremembered>>
labelVars == <<labelRows, labelText, labelReply, labelCalls>>
contextVars == <<webhook, sent, cpc, ctext, cctx, caught>>
quotaVars == <<usageCounters, today, premium, quotaUser, dayCalls, quotaReply>>
laterVars == <<quotaVars, labelVars, contextVars>>
outsideQuota == <<botVars, settingsVars, labelVars, contextVars>>
outsideLabel == <<botVars, settingsVars, quotaVars, contextVars>>
outsideContext == <<botVars, quotaVars, labelVars, settingsRows, spc, stext, skind, held,
                    sreplies, sfailure, storeFailed, sremembered>>
vars == <<botVars, settingsVars, laterVars>>

NoRouted == Branch("none", <<>>)
NoAnswer == [outcome |-> "none", raw |-> <<>>]
NoSettingsRemembered ==
  [text |-> <<"<none>">>, rows |-> <<>>, ctx |-> NoContext, guided |-> FALSE]
NoRemembered == [text |-> <<"<none>">>, row |-> NewUser, called |-> FALSE]

InitEvents ==
  /\ pc = [s \in Slots |-> "idle"]
  /\ etext = [s \in Slots |-> <<>>]
  /\ ekind = [s \in Slots |-> "none"]
  /\ remembered = NoRemembered
  /\ reads = [s \in Slots |-> 0]
  /\ writes = [s \in Slots |-> 0]
  /\ user = [s \in Slots |-> NewUser]
  /\ call = [s \in Slots |-> NoCall]
  /\ result = [s \in Slots |-> NoResult]
  /\ patch = [s \in Slots |-> NoPatch]
  /\ replies = [s \in Slots |-> <<>>]
  /\ genCalls = [s \in Slots |-> 0]
  /\ failure = [s \in Slots |-> "none"]
  /\ answer = [s \in Slots |-> NoAnswer]

\* the revision after start-up: empty table, empty Map, no event
InitSettings ==
  /\ settingsRows = <<>>
  /\ userContext = NoContext
  /\ spc = "idle"
  /\ stext = <<>>
  /\ skind = "none"
  /\ sremembered = NoSettingsRemembered
  /\ held = NullSettings
  /\ sreplies = <<>>
  /\ sfailure = "none"
  /\ storeFailed = FALSE

\* the quota revision after start-up: no counter (no date is day 0), no turn
\* stored
NoCounter == [date |-> 0, count |-> 0]
InitQuota ==
  /\ usageCounters = NoCounter
  /\ today = 1
  /\ premium = FALSE
  /\ quotaUser = [last_source_ja |-> 0, last_output_en |-> "null"]
  /\ dayCalls = 0
  /\ quotaReply = "none"

\* the level-label revision after start-up: empty table, no event
NoText == <<"<none>">>
InitLabel ==
  /\ labelRows = <<>>
  /\ labelText = NoText
  /\ labelReply = "none"
  /\ labelCalls = 0

\* no request yet
InitHandlers ==
  /\ sent = [s \in Slots |-> "none"]
  /\ cpc = [s \in Slots |-> "idle"]
  /\ ctext = [s \in Slots |-> <<>>]
  /\ cctx = [s \in Slots |-> NoContext]
  /\ caught = [s \in Slots |-> FALSE]

InitContext == webhook = "user_settings" /\ InitHandlers

InitLater == InitQuota /\ InitLabel /\ InitContext

Init ==
  /\ users = <<>>
  /\ res = "none"
  /\ InitEvents
  /\ streak = 0
  /\ probe = <<>>
  /\ routed = NoRouted
  /\ choice = <<>>
  /\ InitSettings
  /\ InitLater

(* ------------------------------------------------------------------ *)
(* Inputs                                                              *)
(* ------------------------------------------------------------------ *)
\* message texts of the events handled one at a time
SeqTexts ==
  { <<"j">>, <<" ", "j", "j">>, <<"e">>, <<"j", "e">>, <<"x">>,
    <<"toon:", "kajuaru">>, <<"toon:", "bijinesu">>, <<"toon:">>,
    <<"kono-eibun-de", "E">>,
    <<"TRANSLATE_TO_EN:::", "j", "e">>, <<"TRANSLATE_TO_EN:::">>,
    <<"TRANSLATE_TO_JA:::", "j", "e">>,
    <<"herupu">>, <<"hoomu">>, <<"settei">>, <<"[settei] kantan-settei">>,
    <<"SET_TONE_", "CASUAL">>, <<"SET_LEVEL_EIKEN_", "PRE2">> }

\* message texts of the events of a batch
BatchTexts ==
  { <<"j">>, <<"j", "j">>, <<"toon:", "kajuaru">>, <<"herupu">>,
    <<"SET_TONE_", "CASUAL">> }

\* a forward text, a change of the default tone and tone-change commands
\* whose labels hold none, one or several of the three keywords
ToneTexts ==
  { <<"j">>, <<"SET_TONE_", "BUSINESS">>,
    <<"toon:", "kajuaru">>, <<"toon:", "teinei">>, <<"toon:", "bijinesu">>,
    <<"toon:", "teinei", "kajuaru">>, <<"toon:", "bijinesu", "teinei">>,
    <<"toon:", "bijinesu", "j", "kajuaru">>,
    <<"toon:", "kajuaru", "teinei", "bijinesu">>, <<"toon:", "j">>, <<"toon:">> }

\* contents the backend answers a reverse prompt with
BackendRaw ==
  { <<"{ja,glossary}">>,
    <<"<fence>", "json", "<nl>", "{ja,glossary}", "<nl>", "<fence>">>,
    <<"wayaku-bun">>, <<"<fence>", "wayaku-bun", "<nl>", "<fence>">>, <<>>,
    <<"{ja}">>, <<"{glossary}">>, <<"{ja,glossary:{}}">>, <<"42">>,
    <<"null">>, <<"{ja,glossary:[null]}">> }

(* ------------------------------------------------------------------ *)
(* The webhook and the steps of handleEvent                            *)
(* ------------------------------------------------------------------ *)
Finished(p) == p \in {"idle", "ignored", "done", "thrown"}

\* app.post('/webhook'), lines 1640-1646: Promise.all rejects with the first
\* handler that throws (500) and resolves when every handler returned (200)
Respond(pcNew) ==
  IF res # "none" THEN res
  ELSE IF \E s \in Slots : pcNew[s] = "thrown" THEN "500"
  ELSE IF \A s \in Slots : pcNew[s] \in {"idle", "ignored", "done"} THEN "200"
  ELSE "none"

IsGuidance(msgs) == msgs[1].kind \in {"guidance_tone", "guidance_accept"}

\* the handler of event s goes on with step st
Advance(s, st, r) ==
  /\ pc' = [pc EXCEPT ![s] = st.pc]
  /\ call' = [call EXCEPT ![s] = IF st.pc = "generate" THEN st.call ELSE @]
  /\ patch' = [patch EXCEPT ![s] = st.patch]
  /\ replies' = [replies EXCEPT ![s] = IF st.pc = "done" THEN Append(@, st.reply) ELSE @]
  /\ result' = [result EXCEPT ![s] = r]
  /\ res' = Respond([pc EXCEPT ![s] = st.pc])
  /\ streak' = IF st.pc # "done" THEN streak
               ELSE IF IsGuidance(st.reply) /\ streak < MaxStreak THEN streak + 1
               ELSE IF IsGuidance(st.reply) THEN streak
               ELSE 0
  /\ failure' = failure

\* the handler of event s throws: handleEvent rejects
Throw(s, what) ==
  /\ pc' = [pc EXCEPT ![s] = "thrown"]
  /\ failure' = [failure EXCEPT ![s] = what]
  /\ res' = Respond([pc EXCEPT ![s] = "thrown"])
  /\ streak' = 0
  /\ UNCHANGED <<call, patch, replies, result>>

\* variant: only event.type is tested, every message is handled
EventEntryAnyMessage(kind) == IF kind \in {"text", "image"} THEN "select" ELSE "ignored"

\* handleEvent, lines 2040-2042: an event that is no text message returns at
\* once; the others go on to the select of getOrCreateUser
EventEntry(kind) == IF kind = "text" THEN "select" ELSE "ignored"

\* a webhook request with n events of the user, kinds drawn from K and the
\* texts of the text messages from T; each event starts handleEvent: the
\* test of the kind, trim, then the select of getOrCreateUser
\* R holds the values the observer may keep of the event before
Request(T, K, n, R) ==
  /\ \A s \in Slots : Finished(pc[s])
  /\ remembered' \in R
  /\ \E texts \in [1..n -> T], kinds \in [1..n -> K] :
       /\ ekind' = [s \in Slots |-> IF s <= n THEN kinds[s] ELSE "none"]
       /\ etext' = [s \in Slots |-> IF s <= n /\ kinds[s] = "text"
                                      THEN Trim(texts[s]) ELSE <<>>]
       /\ pc' = [s \in Slots |-> IF s <= n THEN EventEntry(kinds[s]) ELSE "idle"]
       /\ res' = IF \A s \in 1..n : EventEntry(kinds[s]) = "ignored" THEN "200"
                 ELSE "none"
  /\ reads' = [s \in Slots |-> 0]
  /\ writes' = [s \in Slots |-> 0]
  /\ user' = [s \in Slots |-> NewUser]
  /\ call' = [s \in Slots |-> NoCall]
  /\ result' = [s \in Slots |-> NoResult]
  /\ patch' = [s \in Slots |-> NoPatch]
  /\ replies' = [s \in Slots |-> <<>>]
  /\ genCalls' = [s \in Slots |-> 0]
  /\ failure' = [s \in Slots |-> "none"]
  /\ answer' = [s \in Slots |-> NoAnswer]
  /\ UNCHANGED <<users, streak, probe, routed, choice, settingsVars, laterVars>>

WebhookEvents(T, K, n) == Request(T, K, n, {remembered})

\* a webhook request with n text events
Webhook(T, n) == WebhookEvents(T, {"text"}, n)

\* variant: a counter in process memory; the event after a guidance reply is
\* answered with the help text whatever it is
SelectUserThrottled(s) ==
  /\ pc[s] = "select"
  /\ reads' = [reads EXCEPT ![s] = @ + 1]
  /\ \/ /\ Throw(s, "store")
        /\ UNCHANGED user
     \/ /\ users # <<>>
        /\ user' = [user EXCEPT ![s] = users[1]]
        /\ Advance(s, IF streak > 0 THEN Reply(<<Static("replyHelp", "base")>>)
                      ELSE HandleEntry(etext[s], users[1]), NoResult)
     \/ /\ users = <<>>
        /\ pc' = [pc EXCEPT ![s] = "insert"]
        /\ UNCHANGED <<user, call, patch, replies, result, res, streak, failure>>
  /\ UNCHANGED <<users, etext, ekind, writes, genCalls, answer, probe, remembered, routed,
                 choice, settingsVars, laterVars>>

\* getOrCreateUser, lines 1652-1665: the select
SelectUser(s) ==
  /\ pc[s] = "select"
  /\ reads' = [reads EXCEPT ![s] = @ + 1]
  /\ \/ /\ Throw(s, "store")
        /\ UNCHANGED user
     \/ /\ users # <<>>
        /\ user' = [user EXCEPT ![s] = users[1]]
        /\ Advance(s, HandleEntry(etext[s], users[1]), NoResult)
     \/ /\ users = <<>>
        /\ pc' = [pc EXCEPT ![s] = "insert"]
        /\ UNCHANGED <<user, call, patch, replies, result, res, streak, failure>>
  /\ UNCHANGED <<users, etext, ekind, writes, genCalls, answer, probe, remembered, routed, choice,
                 settingsVars, laterVars>>

\* variant: a table without the uniqueness constraint
InsertNeverConflicts(rows) == FALSE

\* The uniqueness constraint of the users table on line_user_id: an insert
\* for an id that has a row is rejected by the store.
InsertConflicts(rows) == rows # <<>>

\* getOrCreateUser, lines 1667-1691: the insert.  It throws when the store
\* cannot be reached and when the store rejects the row (insertError).
InsertUser(s) ==
  /\ pc[s] = "insert"
  /\ writes' = [writes EXCEPT ![s] = @ + 1]
  /\ \/ /\ Throw(s, "store")
        /\ UNCHANGED <<users, user>>
     \/ /\ InsertConflicts(users)
        /\ Throw(s, "conflict")
        /\ UNCHANGED <<users, user>>
     \/ /\ ~InsertConflicts(users)
        /\ users' = Append(users, NewUser)
        /\ user' = [user EXCEPT ![s] = NewUser]
        /\ Advance(s, HandleEntry(etext[s], NewUser), NoResult)
  /\ UNCHANGED <<etext, ekind, reads, genCalls, answer, probe, remembered, routed, choice,
                 settingsVars, laterVars>>

\* openai.chat.completions.create returns or throws, and the handler runs on
\* to its next await
GenerateReturn(s) ==
  /\ pc[s] = "generate"
  /\ genCalls' = [genCalls EXCEPT ![s] = @ + 1]
  /\ \E outcome \in {"throw", "empty", "text"} :
     \E raw \in IF call[s].kind = "reverse" /\ outcome = "text" THEN BackendRaw ELSE {<<>>} :
       /\ answer' = [answer EXCEPT ![s] = [outcome |-> outcome, raw |-> raw]]
       /\ IF outcome = "throw" /\ ~Caught(call[s].kind) THEN Throw(s, "backend")
          ELSE IF call[s].kind = "reverse" /\ ReverseThrows(raw) THEN Throw(s, "type")
          ELSE LET a == AfterGenerate(user[s], call[s], outcome, raw)
               IN  Advance(s, a.step, a.result)
  /\ UNCHANGED <<users, etext, ekind, reads, writes, user, probe, remembered, routed, choice,
                 settingsVars, laterVars>>

\* updateUser, lines 1694-1708, and the handler's code after it.  single()
\* answers with an error unless exactly one row matched; whether the rows
\* were patched by then is the store's choice.
UpdateUser(s) ==
  /\ pc[s] = "update"
  /\ writes' = [writes EXCEPT ![s] = @ + 1]
  /\ \/ /\ Throw(s, "store")
        /\ UNCHANGED users
     \/ /\ Len(users) > 1
        /\ users' \in {users, [i \in 1..Len(users) |-> ApplyPatch(users[i], patch[s])]}
        /\ Throw(s, "single")
     \/ /\ Len(users) = 1
        /\ users' = [i \in 1..Len(users) |-> ApplyPatch(users[i], patch[s])]
        /\ Advance(s, AfterUpdate(Dispatch(etext[s]).handler,
                                  ApplyPatch(users[1], patch[s]), result[s]),
                   result[s])
  /\ UNCHANGED <<etext, ekind, reads, user, genCalls, answer, probe, remembered, routed, choice,
                 settingsVars, laterVars>>

Step(s) == SelectUser(s) \/ InsertUser(s) \/ GenerateReturn(s) \/ UpdateUser(s)

\* events of a batch run in parallel
Next == (\E n \in 1..MaxBatch : Webhook(BatchTexts, n)) \/ (\E s \in Slots : Step(s))
Spec == Init /\ [][Next]_vars

\* first contact: batches of a help request and a Japanese text in parallel
FirstContactTexts == { <<"herupu">>, <<"j">> }
NextFirstContact ==
  (\E n \in 1..MaxBatch : Webhook(FirstContactTexts, n)) \/ (\E s \in Slots : Step(s))
SpecFirstContact == Init /\ [][NextFirstContact]_vars

\* one event at a time
NextSeq == Webhook(SeqTexts, 1) \/ Step(1)
SpecSeq == Init /\ [][NextSeq]_vars

\* one event at a time: the leaf commands of the settings menus, and a
\* Japanese and an English text that fill the last_* fields
PreferenceTexts ==
  { <<"j">>, <<"e">>, <<"SET_TONE_", "BUSINESS">>, <<"SET_USAGE_", "MAIL_EXTERNAL">>,
    <<"SET_EN_STYLE_", "BRITISH">>, <<"SET_LEVEL_EIKEN_", "PRE2">>,
    <<"SET_EASY_PROFILE_", "4">> }
NextPreference == Webhook(PreferenceTexts, 1) \/ Step(1)
SpecPreference == Init /\ [][NextPreference]_vars

\* one event at a time: the eiken level command with nothing or any one
\* suffix token after the prefix, and two easy profiles
LevelTexts ==
  { <<"SET_LEVEL_EIKEN_">> \o t : t \in TextsUpTo(SuffixTokens, 1) }
    \cup { <<"SET_EASY_PROFILE_", "2">>, <<"SET_EASY_PROFILE_", "4">> }
NextLevel == Webhook(LevelTexts, 1) \/ Step(1)
SpecLevel == Init /\ [][NextLevel]_vars

\* forward, reverse and tone-change turns and a preference command, side by
\* side in one batch
ModeTexts == { <<"j">>, <<"e">>, <<"toon:", "kajuaru">>, <<"SET_TONE_", "CASUAL">> }
NextModes == (\E n \in 1..MaxBatch : Webhook(ModeTexts, n)) \/ (\E s \in Slots : Step(s))
SpecModes == Init /\ [][NextModes]_vars

\* a Japanese text and changes of the default tone, side by side in one batch
OwnFieldTexts ==
  { <<"j">>, <<"SET_TONE_", "CASUAL">>, <<"SET_TONE_", "BUSINESS">> }
NextOwnFields ==
  (\E n \in 1..MaxBatch : Webhook(OwnFieldTexts, n)) \/ (\E s \in Slots : Step(s))
SpecOwnFields == Init /\ [][NextOwnFields]_vars

\* one event at a time, tone-change commands with every kind of label
NextTone == Webhook(ToneTexts, 1) \/ Step(1)
SpecTone == Init /\ [][NextTone]_vars

(* ------------------------------------------------------------------ *)
(* The dispatch function on its own                                    *)
(* ------------------------------------------------------------------ *)
InitDispatch ==
  /\ users = <<>>
  /\ res = "none"
  /\ InitEvents
  /\ streak = 0
  /\ probe \in TextsUpTo(Tokens, MaxTextLen)
  /\ routed = NoRouted
  /\ choice = <<>>
  /\ InitSettings
  /\ InitLater

\* handleEvent, lines 2047-2144: trim, then the dispatch chain
Route ==
  /\ routed = NoRouted
  /\ routed' = Dispatch(Trim(probe))
  /\ UNCHANGED <<users, res, pc, etext, ekind, reads, writes, user, call, result,
                 patch, replies, genCalls, failure, answer, streak, probe, remembered,
                 choice,
                 settingsVars, laterVars>>

SpecDispatch == InitDispatch /\ [][Route]_vars

\* detectLanguage on free texts: every text of script characters, digits
\* and symbols reaches the last branch of handleEvent (lines 2128-2144)
ScriptChars == {"j", "e", "E", "x"}
InitDetect ==
  /\ users = <<>>
  /\ res = "none"
  /\ InitEvents
  /\ streak = 0
  /\ probe \in TextsUpTo(ScriptChars, MaxScriptLen)
  /\ routed = NoRouted
  /\ choice = <<>>
  /\ InitSettings
  /\ InitLater
SpecDetect == InitDetect /\ [][Route]_vars

\* the dispatch of the lowercase-only revision on every short text
InitLowercase ==
  /\ users = <<>>
  /\ res = "none"
  /\ InitEvents
  /\ streak = 0
  /\ probe \in TextsUpTo(Tokens \cup {PremiumToken}, MaxTextLen)
  /\ routed = NoRouted
  /\ choice = <<>>
  /\ InitSettings
  /\ InitLater

\* handleEvent of the revision, lines 1898-1987: trim, then the dispatch chain
RouteLowercase ==
  /\ routed = NoRouted
  /\ routed' = DispatchLowercase(Trim(probe))
  /\ UNCHANGED <<users, res, pc, etext, ekind, reads, writes, user, call, result,
                 patch, replies, genCalls, failure, answer, streak, probe, remembered,
                 choice,
                 settingsVars, laterVars>>

SpecLowercase == InitLowercase /\ [][RouteLowercase]_vars

\* the reverse text of handleEnToJa on every short glossary: entries with
\* and without a term, a meaning, a note
GlossaryEntries ==
  { Entry(t, m, n) : t \in {"", "reschedule", "if possible"}, m \in {"", "enki-suru"},
                     n \in {"", "teinei"} }
InitGlossary ==
  /\ users = <<>>
  /\ res = "none"
  /\ InitEvents
  /\ streak = 0
  /\ probe \in UNION {[1..k -> GlossaryEntries] : k \in 0..MaxGlossary}
  /\ routed = NoRouted
  /\ choice = <<>>
  /\ InitSettings
  /\ InitLater

\* handleEnToJa, lines 2762-2772: resultText built from ja and the glossary
Render ==
  /\ routed = NoRouted
  /\ routed' = Branch("handleEnToJa", ReverseText(<<"wayaku">>, probe))
  /\ UNCHANGED <<users, res, pc, etext, ekind, reads, writes, user, call, result,
                 patch, replies, genCalls, failure, answer, streak, probe, remembered,
                 choice, settingsVars, laterVars>>

\* the earlier handleEnToJa, lines 1505-1521
RenderEarlier ==
  /\ routed = NoRouted
  /\ routed' = Branch("handleEnToJa (earlier)",
                      [ja |-> <<"wayaku">>, section |-> Len(probe) > 0,
                       lines |-> GlossaryLinesEarlier(probe)])
  /\ UNCHANGED <<users, res, pc, etext, ekind, reads, writes, user, call, result,
                 patch, replies, genCalls, failure, answer, streak, probe, remembered,
                 choice, settingsVars, laterVars>>

NextGlossary == Render \/ RenderEarlier
SpecGlossary == InitGlossary /\ [][NextGlossary]_vars

(* ------------------------------------------------------------------ *)
(* The choice after handleMixed, sent back as the next message         *)
(* ------------------------------------------------------------------ *)
\* the user taps one of the two options handleMixed replied with (lines
\* 2799-2814): its text is the message of the next event, which handleEvent
\* trims and dispatches (lines 2047-2058)
Choose ==
  /\ routed.handler = "handleMixed"
  /\ choice = <<>>
  /\ \E i \in 1..2 :
       /\ choice' = handleMixed(routed.arg).reply[1].options[i]
       /\ routed' = Dispatch(Trim(handleMixed(routed.arg).reply[1].options[i]))
  /\ UNCHANGED <<users, res, pc, etext, ekind, reads, writes, user, call, result,
                 patch, replies, genCalls, failure, answer, streak, probe, remembered,
                 settingsVars, laterVars>>

NextChoice == Route \/ Choose
SpecChoice == InitDispatch /\ [][NextChoice]_vars

(* ------------------------------------------------------------------ *)
(* The user_settings revision: one event at a time                     *)
(* ------------------------------------------------------------------ *)
\* message texts of the events of the revision
SettingsTexts ==
  { <<"j">>, <<" ">>, <<"hoomu">>, <<"tsukaikata">>, <<"[settei] buntai">>,
    <<"SET_LEVEL_EIKEN_", "1">>, <<"SET_LEVEL_TOEIC_", "900_990">>,
    <<"SET_TONE_", "CASUAL">>, <<"SET_VARIANT_", "UK">>,
    <<"kajuaru">>, <<"kono-eibun-de-yoi">> }

\* the webhook (lines 981-992) hands an event to handleEvent, which runs to
\* its first await (lines 758-974, 602-610, 681-689); kinds drawn from K and
\* the text of a text message from T
\* with observe the observer may keep the event
Arrival(T, K, observe) ==
  /\ spc \in {"idle", "ignored", "done", "thrown"}
  /\ \E t \in T, kind \in K :
       LET text == IF kind = "text" THEN Trim(t) ELSE <<>>
           h == DispatchEvent(kind, text)
           guided == MissingContext(h, userContext)
       IN  /\ stext' = text
           /\ skind' = kind
           /\ spc' = IF h = "ignored" THEN "ignored"
                     ELSE IF h \in ImmediateBranches \/ guided THEN "done"
                     ELSE IF h \in UpdateBranches THEN "write"
                     ELSE "read"
           /\ sreplies' = IF guided THEN << <<SMsg("guidance", NoOutput)>> >>
                          ELSE IF h \in ImmediateBranches THEN << <<SMsg(h, NoOutput)>> >>
                          ELSE <<>>
           /\ sremembered' \in
                {sremembered} \cup
                  (IF observe
                     THEN {[text |-> text, rows |-> settingsRows, ctx |-> userContext,
                            guided |-> guided]}
                     ELSE {})
  /\ held' = NullSettings
  /\ sfailure' = "none"
  /\ storeFailed' = FALSE
  /\ UNCHANGED <<settingsRows, userContext, botVars, laterVars>>

DeliverEvents(T, K) == Arrival(T, K, FALSE)

\* a text event
Deliver == DeliverEvents(SettingsTexts, {"text"})

\* getOrCreateUserSettings returned st: the menus reply (lines 784-816), the
\* generating handlers go on to the backend call
GotSettings(st) ==
  /\ held' = st
  /\ IF DispatchEvent(skind, stext) \in MenuBranches \cup {"replyFollow"}
       THEN /\ spc' = "done"
            /\ sreplies' = << <<SMsg(DispatchEvent(skind, stext), NoOutput)>> >>
       ELSE /\ spc' = "complete"
            /\ sreplies' = sreplies
  /\ UNCHANGED <<userContext, sfailure>>

\* getOrCreateUserSettings, lines 118-132: the select; an error is answered
\* with the defaults in memory
ReadSettings ==
  /\ spc = "read"
  /\ \/ /\ storeFailed' = TRUE
        /\ GotSettings(DEFAULT_SETTINGS)
     \/ /\ settingsRows # <<>>
        /\ storeFailed' = storeFailed
        /\ GotSettings(settingsRows[1])
     \/ /\ settingsRows = <<>>
        /\ spc' = "create"
        /\ UNCHANGED <<held, sreplies, sfailure, storeFailed, userContext>>
  /\ UNCHANGED <<settingsRows, stext, skind, sremembered, botVars, laterVars>>

\* getOrCreateUserSettings, lines 134-151: the insert; an error is answered
\* with the defaults in memory
CreateSettings ==
  /\ spc = "create"
  /\ \/ /\ storeFailed' = TRUE
        /\ settingsRows' = settingsRows
        /\ GotSettings(DEFAULT_SETTINGS)
     \/ /\ ~InsertConflicts(settingsRows)
        /\ storeFailed' = storeFailed
        /\ settingsRows' = Append(settingsRows, DEFAULT_SETTINGS)
        /\ GotSettings(DEFAULT_SETTINGS)
  /\ UNCHANGED <<stext, skind, sremembered, botVars, laterVars>>

\* updateUserSettings returned st (null after an error or without a row):
\* the SET_* branches read a field of it for the message (describeLevel,
\* describeTone, describeVariant, lines 200-257) and reply
Updated(st) ==
  /\ held' = st
  /\ IF IsNullSettings(st)
       THEN /\ spc' = "thrown"
            /\ sfailure' = "type"
            /\ sreplies' = sreplies
       ELSE /\ spc' = "done"
            /\ sfailure' = sfailure
            /\ sreplies' = << <<SMsg(DispatchUserSettings(stext), NoOutput)>> >>
  /\ UNCHANGED userContext

\* updateUserSettings, lines 154-173, and the branch after it
WriteSettings ==
  /\ spc = "write"
  /\ \/ /\ storeFailed' = TRUE
        /\ settingsRows' = settingsRows
        /\ Updated(NullSettings)
     \/ /\ settingsRows = <<>>
        /\ UNCHANGED <<settingsRows, storeFailed>>
        /\ Updated(NullSettings)
     \/ /\ settingsRows # <<>>
        /\ storeFailed' = storeFailed
        /\ settingsRows' = <<ApplyUpdates(settingsRows[1], SettingsUpdates(stext))>>
        /\ Updated(ApplyUpdates(settingsRows[1], SettingsUpdates(stext)))
  /\ UNCHANGED <<stext, skind, sremembered, botVars, laterVars>>

\* openai.chat.completions.create of handleTranslate (547-576),
\* handleRetone (620-639) and handleAcceptSentence (702-719) returns or throws
Complete ==
  /\ spc = "complete"
  /\ \E outcome \in {"throw", "empty", "text"} :
       LET h == DispatchUserSettings(stext)
           src == IF h = "handleTranslate" THEN stext ELSE userContext.lastSourceText
           tone == IF h = "handleRetone" THEN RetoneOverride(stext, held)
                   ELSE held.english_style_default
           english == IF outcome = "text" THEN Generated(src, tone) ELSE EmptyOutput
       IN  IF outcome = "throw"
             THEN /\ spc' = "thrown"
                  /\ sfailure' = "backend"
                  /\ UNCHANGED <<userContext, sreplies>>
             ELSE /\ spc' = "done"
                  /\ sfailure' = sfailure
                  /\ userContext' =
                       IF h = "handleAcceptSentence" THEN userContext
                       ELSE [lastSourceText |-> src, lastCandidate |-> english,
                             lastTone |-> tone]
                  /\ sreplies' =
                       IF h = "handleAcceptSentence"
                         THEN << <<SMsg("copy", userContext.lastCandidate),
                                   SMsg("lesson", NoOutput)>> >>
                       ELSE << <<SMsg(h, english)>> >>
  /\ UNCHANGED <<settingsRows, stext, skind, held, storeFailed, sremembered, botVars, laterVars>>

NextSettings == Deliver \/ ReadSettings \/ CreateSettings \/ WriteSettings \/ Complete
SpecSettings == Init /\ [][NextSettings]_vars

(* ------------------------------------------------------------------ *)
(* Two events of one process compared, in both revisions side by side  *)
(* ------------------------------------------------------------------ *)
\* one event at a time, the observer free to keep the event handled before:
\* a Japanese text, a tone change, the help and a change of the default tone
RecallTexts == { <<"j">>, <<"toon:", "kajuaru">>, <<"herupu">>, <<"SET_TONE_", "CASUAL">> }
\* the revision: a text to translate and a tone word
SettingsRecallTexts == { <<"j">>, <<"kajuaru">> }
Handled(s) == pc[s] = "done" \/ genCalls[s] > 0
Snapshot(s) == [text |-> etext[s], row |-> user[s], called |-> genCalls[s] > 0]
\* a process runs one revision: the events of a behaviour all go to the
\* revision that got the first one
RunsUsersTable == skind = "none"
RunsUserSettings == \A s \in Slots : ekind[s] = "none"
NextRecall ==
  \/ RunsUsersTable /\ Request(RecallTexts, {"text"}, 1,
                               {remembered} \cup (IF Handled(1) THEN {Snapshot(1)} ELSE {}))
  \/ RunsUsersTable /\ SelectUser(1)
  \/ RunsUsersTable /\ InsertUser(1)
  \/ RunsUsersTable /\ GenerateReturn(1)
  \/ RunsUsersTable /\ UpdateUser(1)
  \/ RunsUserSettings /\ Arrival(SettingsRecallTexts, {"text"}, TRUE)
  \/ RunsUserSettings /\ ReadSettings
  \/ RunsUserSettings /\ CreateSettings
  \/ RunsUserSettings /\ Complete
SpecRecall == Init /\ [][NextRecall]_vars

(* ------------------------------------------------------------------ *)
(* Events of every kind, in both revisions side by side                *)
(* ------------------------------------------------------------------ *)
EventKinds == {"text", "image", "follow"}
EventTexts == { <<"j">>, <<"herupu">> }
SettingsEventTexts == { <<"j">>, <<"hoomu">>, <<"SET_TONE_", "CASUAL">> }
NextEvents ==
  \/ WebhookEvents(EventTexts, EventKinds, 1)
  \/ Step(1)
  \/ DeliverEvents(SettingsEventTexts, EventKinds)
  \/ ReadSettings \/ CreateSettings \/ WriteSettings \/ Complete
SpecEvents == Init /\ [][NextEvents]_vars

(* ------------------------------------------------------------------ *)
(* The quota revision (src/unnamed/part_000)                           *)
(* ------------------------------------------------------------------ *)
FREE_MAX_CHARS == 1000
FREE_MAX_REQUESTS_PER_DAY == 5
PREMIUM_MAX_CHARS == 3000

\* checkAndConsumeQuota, part_000 lines 1445-1486, on the user's entry of
\* usageCounters; answers with the verdict and the entry it leaves
checkAndConsumeQuota(isPremium, counter, date, len) ==
  LET maxChars == IF isPremium THEN PREMIUM_MAX_CHARS ELSE FREE_MAX_CHARS
      found == IF counter = NoCounter THEN [date |-> date, count |-> 0] ELSE counter
      info == IF found.date # date THEN [date |-> date, count |-> 0] ELSE found
  IN  IF len > maxChars
        THEN [ok |-> FALSE, reason |-> "too_long", counter |-> counter]
      ELSE IF isPremium
        THEN [ok |-> TRUE, reason |-> "none", counter |-> counter]
      ELSE IF info.count >= FREE_MAX_REQUESTS_PER_DAY
        THEN [ok |-> FALSE, reason |-> "quota_exceeded", counter |-> info]
      ELSE [ok |-> TRUE, reason |-> "none",
            counter |-> [info EXCEPT !.count = @ + 1]]

\* lengths of the texts sent: short, at and over the free limit, over the
\* premium limit
QuotaLengths == {1, FREE_MAX_CHARS, FREE_MAX_CHARS + 1, PREMIUM_MAX_CHARS + 1}
BackendOutcomes == {"throw", "empty", "text"}
QuotaOutput(outcome) == IF outcome = "text" THEN "en" ELSE ""

\* the process is started with or without the user's id in PREMIUM_USER_IDS
InitQuotaRevision ==
  /\ users = <<>>
  /\ res = "none"
  /\ InitEvents
  /\ streak = 0
  /\ probe = <<>>
  /\ routed = NoRouted
  /\ choice = <<>>
  /\ InitSettings
  /\ InitLabel
  /\ InitContext
  /\ usageCounters = NoCounter
  /\ today = 1
  /\ premium \in BOOLEAN
  /\ quotaUser = [last_source_ja |-> 0, last_output_en |-> "null"]
  /\ dayCalls = 0
  /\ quotaReply = "none"

\* handleJaToEn, part_000 lines 2422-2446
QuotaJaToEn ==
  /\ dayCalls < MaxDayCalls
  /\ \E len \in QuotaLengths, outcome \in BackendOutcomes :
       LET quota == checkAndConsumeQuota(premium, usageCounters, today, len)
       IN  /\ usageCounters' = quota.counter
           /\ IF ~quota.ok
                 THEN /\ quotaReply' = quota.reason
                      /\ UNCHANGED <<quotaUser, dayCalls>>
               ELSE /\ dayCalls' = dayCalls + 1
                    /\ IF outcome = "throw"
                          THEN /\ quotaReply' = "none"
                               /\ UNCHANGED quotaUser
                        ELSE /\ quotaUser' = [last_source_ja |-> len,
                                               last_output_en |-> QuotaOutput(outcome)]
                             /\ quotaReply' = "en"
  /\ UNCHANGED <<today, premium, outsideQuota>>

\* handleEnToJa, part_000 lines 2450-2488
QuotaEnToJa ==
  /\ dayCalls < MaxDayCalls
  /\ \E len \in QuotaLengths, outcome \in BackendOutcomes :
       LET quota == checkAndConsumeQuota(premium, usageCounters, today, len)
       IN  /\ usageCounters' = quota.counter
           /\ IF ~quota.ok
                 THEN /\ quotaReply' = quota.reason
                      /\ UNCHANGED dayCalls
               ELSE /\ dayCalls' = dayCalls + 1
                    /\ quotaReply' = IF outcome = "throw" THEN "none" ELSE "ja"
  /\ UNCHANGED <<today, premium, quotaUser, outsideQuota>>

\* handleToneChange, part_000 lines 2322-2358
QuotaToneChange ==
  /\ dayCalls < MaxDayCalls
  /\ IF quotaUser.last_source_ja = 0
        THEN /\ quotaReply' = "guidance_tone"
             /\ UNCHANGED <<usageCounters, quotaUser, dayCalls>>
      ELSE \E outcome \in BackendOutcomes :
        LET quota == checkAndConsumeQuota(premium, usageCounters, today,
                                          quotaUser.last_source_ja)
        IN  /\ usageCounters' = quota.counter
            /\ IF ~quota.ok
                  THEN /\ quotaReply' = quota.reason
                       /\ UNCHANGED <<quotaUser, dayCalls>>
                ELSE /\ dayCalls' = dayCalls + 1
                     /\ IF outcome = "throw"
                           THEN /\ quotaReply' = "none"
                                /\ UNCHANGED quotaUser
                         ELSE /\ quotaUser' = [quotaUser EXCEPT
                                                  !.last_output_en = QuotaOutput(outcome)]
                              /\ quotaReply' = "en"
  /\ UNCHANGED <<today, premium, outsideQuota>>

\* handleAcceptCurrentEnglish, part_000 lines 2362-2388: generateOnePointLesson
\* is called without a call of checkAndConsumeQuota
QuotaAccept ==
  /\ dayCalls < MaxDayCalls
  /\ IF quotaUser.last_output_en \in {"null", ""}
        THEN /\ quotaReply' = "guidance_accept"
             /\ UNCHANGED dayCalls
      ELSE \E outcome \in BackendOutcomes :
             /\ dayCalls' = dayCalls + 1
             /\ quotaReply' = IF outcome = "text" THEN "lesson" ELSE "lesson_fallback"
  /\ UNCHANGED <<usageCounters, today, premium, quotaUser, outsideQuota>>

\* todayString, part_000 lines 1434-1436: the calendar date changes
Midnight ==
  /\ today < MaxDays
  /\ today' = today + 1
  /\ dayCalls' = 0
  /\ UNCHANGED <<usageCounters, premium, quotaUser, quotaReply, outsideQuota>>

NextQuota == QuotaJaToEn \/ QuotaEnToJa \/ QuotaToneChange \/ QuotaAccept \/ Midnight
SpecQuota == InitQuotaRevision /\ [][NextQuota]_vars

(* ------------------------------------------------------------------ *)
(* The level-label revision (src/index.js, lines 1-259)                *)
(* ------------------------------------------------------------------ *)
\* level_label of a row that has none (NULL)
NullLabel == <<"<null>">>
ResetCommand == <<"reberu-henkou">>

\* String.prototype.toLowerCase on the tokens of the texts sent
LowerLabelToken(t) == IF t \in {"Help", "HELP"} THEN "help" ELSE t

\* handleTextMessage, line 139
IsHelp(text) ==
  text = <<"herupu">> \/ [i \in 1..Len(text) |-> LowerLabelToken(text[i])] = <<"help">>
\* handleTextMessage, line 152
IsReset(text) == text = ResetCommand
\* !user.level_label, line 168
Unset(label) == label \in {NullLabel, <<>>}

\* texts sent to the level-label revision
LabelTexts ==
  { <<"herupu">>, <<"Help">>, ResetCommand, <<" ", "reberu-henkou">>,
    <<"eiken-2kyuu">>, <<" ", "TOEIC600", " ">>, <<"chuugaku-eigo">>, <<"HELP">>,
    <<"j">>, <<"e">>, <<" ">> }

\* updateUserLevel, lines 78-92: update ... single() answers with an error
\* unless exactly one row matched
updateUserLevel(rows, label) ==
  [ok |-> Len(rows) = 1, rows |-> [i \in 1..Len(rows) |-> label]]

\* handleTextMessage, lines 139-150: the help text
LabelHelp ==
  \E posted \in LabelTexts :
    /\ IsHelp(Trim(posted))
    /\ labelText' = posted
    /\ labelReply' = "help"
    /\ labelCalls' = 0
    /\ UNCHANGED <<labelRows, outsideLabel>>

\* handleTextMessage, lines 152-162: the level is set to NULL, then the reset
\* prompt; a failed update rejects the handler before the reply
LabelReset ==
  \E posted \in LabelTexts :
    /\ ~IsHelp(Trim(posted)) /\ IsReset(Trim(posted))
    /\ labelText' = posted
    /\ labelCalls' = 0
    /\ LET updated == updateUserLevel(labelRows, NullLabel)
       IN  /\ labelRows' = updated.rows
           /\ labelReply' = IF updated.ok THEN "reset_prompt" ELSE "none"
    /\ UNCHANGED outsideLabel

\* handleTextMessage, lines 165-183, with getOrCreateUser, lines 50-76: the
\* row has no level and the text is stored as the level
LabelRegister ==
  \E posted \in LabelTexts :
    /\ ~IsHelp(Trim(posted)) /\ ~IsReset(Trim(posted))
    /\ IF labelRows = <<>> THEN TRUE ELSE Unset(labelRows[1])
    /\ labelText' = posted
    /\ labelCalls' = 0
    /\ LET found == IF labelRows = <<>> THEN <<NullLabel>> ELSE labelRows
           updated == updateUserLevel(found, Trim(posted))
       IN  /\ labelRows' = updated.rows
           /\ labelReply' = IF updated.ok THEN "registered" ELSE "none"
    /\ UNCHANGED outsideLabel

\* handleTextMessage, lines 185-214: the row has a level and the text is
\* translated; a failing call is caught and answered
LabelTranslate ==
  \E posted \in LabelTexts, outcome \in {"throw", "empty", "text"} :
    /\ ~IsHelp(Trim(posted)) /\ ~IsReset(Trim(posted))
    /\ IF labelRows = <<>> THEN FALSE ELSE ~Unset(labelRows[1])
    /\ labelText' = posted
    /\ labelCalls' = 1
    /\ labelReply' = CASE outcome = "throw" -> "translate_error"
                        [] outcome = "empty" -> "no_result"
                        [] OTHER -> "translated"
    /\ UNCHANGED <<labelRows, outsideLabel>>

NextLabel == LabelHelp \/ LabelReset \/ LabelRegister \/ LabelTranslate
SpecLabel == Init /\ [][NextLabel]_vars

(* ------------------------------------------------------------------ *)
(* Webhooks that answer first, handlers side by side                   *)
(* (src/unnamed/part_001:20-53, 543-678, 981-992; src/unnamed/part_002) *)
(* ------------------------------------------------------------------ *)
\* the echo revision of part_001 (lines 1-66), the one of part_002 and the
\* user_settings revision (part_001, lines 70-1003)
Webhooks == {"echo", "echo_inline", "user_settings"}

\* handleEvent up to its first await.  echo (part_001:39-47) awaits
\* translateOrWhatever, echo_inline (part_002:36-44) awaits replyMessage;
\* user_settings: handleTranslate awaits getOrCreateUserSettings (544),
\* handleRetone answers at once without an entry (602-610) and awaits
\* getOrCreateUserSettings with one (612)
HandlerEntry(w, kind, text, ctx) ==
  IF kind # "text" THEN "ignored"
  ELSE IF w = "echo" THEN "echo"
  ELSE IF w = "echo_inline" THEN "reply"
  ELSE IF MissingContext(DispatchUserSettings(Trim(text)), ctx) THEN "reply"
  ELSE "settings"

\* variant: a rejection nobody catches ends the process and with it every
\* handler that runs
RejectUncaught(s) ==
  /\ cpc' = [t \in Slots |-> IF cpc[t] \in {"idle", "ignored", "done"} THEN cpc[t]
                               ELSE "failed"]
  /\ caught' = caught
  /\ ctext' = [t \in Slots |-> <<>>]
  /\ cctx' = [t \in Slots |-> NoContext]

\* handleEvent(event).catch(...), part_001 lines 29-31 and 988-990,
\* part_002 lines 21-22: the rejection of one handler is logged; the
\* handler's locals are gone
Reject(s) ==
  /\ cpc' = [cpc EXCEPT ![s] = "failed"]
  /\ caught' = [caught EXCEPT ![s] = TRUE]
  /\ ctext' = [ctext EXCEPT ![s] = <<>>]
  /\ cctx' = [cctx EXCEPT ![s] = NoContext]

\* variant: the source is read again from the Map when the entry is written
RetoneEntryRereading(ctx, current, english, tone) ==
  [lastSourceText |-> current.lastSourceText, lastCandidate |-> english, lastTone |-> tone]

\* userContext.set of handleRetone, part_001 lines 634-638: ctx is the entry
\* read on line 602, current the entry the Map holds now
RetoneEntry(ctx, current, english, tone) ==
  [lastSourceText |-> ctx.lastSourceText, lastCandidate |-> english, lastTone |-> tone]

\* a request of webhook w with events in the slots S, which no handler
\* occupies: res.sendStatus(200) and the start of every handler happen in
\* the request's own job (part_001:20-36, 981-992; part_002:15-27)
Receive(W, T, K) ==
  /\ webhook \in W
  /\ \E S \in (SUBSET Slots) \ {{}} :
       /\ \A s \in S : Finished(cpc[s])
       /\ \E texts \in [S -> T], kinds \in [S -> K] :
            /\ cpc' = [s \in Slots |->
                        IF s \in S
                          THEN HandlerEntry(webhook, kinds[s], texts[s], userContext)
                          ELSE cpc[s]]
            /\ ctext' = [s \in Slots |->
                          IF s \notin S THEN ctext[s]
                          ELSE IF kinds[s] = "text" THEN texts[s] ELSE <<>>]
            /\ cctx' = [s \in Slots |->
                         IF s \notin S THEN cctx[s]
                         ELSE IF /\ webhook = "user_settings"
                                 /\ kinds[s] = "text"
                                 /\ DispatchUserSettings(Trim(texts[s])) = "handleRetone"
                           THEN userContext
                         ELSE NoContext]
       /\ sent' = [s \in Slots |-> IF s \in S THEN "200" ELSE sent[s]]
       /\ caught' = [s \in Slots |-> IF s \in S THEN FALSE ELSE caught[s]]
  /\ UNCHANGED <<webhook, userContext, outsideContext>>

\* translateOrWhatever returned, part_001 lines 47 and 57-61
Echoed(s) ==
  /\ cpc[s] = "echo"
  /\ cpc' = [cpc EXCEPT ![s] = "reply"]
  /\ UNCHANGED <<webhook, sent, ctext, cctx, caught, userContext, outsideContext>>

\* getOrCreateUserSettings returned (it answers with the defaults after an
\* error), part_001 lines 544 and 612
GotUserSettings(s) ==
  /\ cpc[s] = "settings"
  /\ cpc' = [cpc EXCEPT ![s] = "generate"]
  /\ UNCHANGED <<webhook, sent, ctext, cctx, caught, userContext, outsideContext>>

\* openai.chat.completions.create returned or threw: handleTranslate,
\* part_001 lines 548-563, and handleRetone, lines 621-638
Completed(s) ==
  /\ cpc[s] = "generate"
  /\ \E outcome \in {"throw", "empty", "text"} :
       LET h == DispatchUserSettings(Trim(ctext[s]))
           src == IF h = "handleTranslate" THEN Trim(ctext[s]) ELSE cctx[s].lastSourceText
           tone == IF h = "handleRetone" THEN RetoneOverride(Trim(ctext[s]), DEFAULT_SETTINGS)
                   ELSE DEFAULT_SETTINGS.english_style_default
           english == IF outcome = "text" THEN Generated(src, tone) ELSE EmptyOutput
       IN  IF outcome = "throw"
             THEN /\ Reject(s)
                  /\ UNCHANGED userContext
             ELSE /\ cpc' = [cpc EXCEPT ![s] = "reply"]
                  /\ UNCHANGED <<caught, ctext, cctx>>
                  /\ userContext' =
                       IF h = "handleTranslate"
                         THEN [lastSourceText |-> src, lastCandidate |-> english,
                               lastTone |-> tone]
                       ELSE RetoneEntry(cctx[s], userContext, english, tone)
  /\ UNCHANGED <<webhook, sent, outsideContext>>

\* client.replyMessage returned or threw, and the handler with it
Replied(s) ==
  /\ cpc[s] = "reply"
  /\ \/ /\ cpc' = [cpc EXCEPT ![s] = "done"]
        /\ caught' = caught
        /\ ctext' = [ctext EXCEPT ![s] = <<>>]
        /\ cctx' = [cctx EXCEPT ![s] = NoContext]
     \/ Reject(s)
  /\ UNCHANGED <<webhook, sent, userContext, outsideContext>>

Settle(s) == Echoed(s) \/ GotUserSettings(s) \/ Completed(s) \/ Replied(s)

\* source texts and tone words sent to the user_settings revision
ContextTexts == { <<"j">>, <<"j", "j">>, <<"kajuaru">> }
NextContext ==
  \/ Receive({"user_settings"}, ContextTexts, {"text"})
  \/ \E s \in Slots : GotUserSettings(s) \/ Completed(s) \/ Replied(s)
SpecContext == Init /\ [][NextContext]_vars

\* the three webhooks; every promise a handler awaits settles and node runs
\* the handler on, so each handler in flight takes its next step
RespondTexts == { <<"j">> }
InitRespondFirst ==
  /\ users = <<>>
  /\ res = "none"
  /\ InitEvents
  /\ streak = 0
  /\ probe = <<>>
  /\ routed = NoRouted
  /\ choice = <<>>
  /\ InitSettings
  /\ InitQuota
  /\ InitLabel
  /\ webhook \in Webhooks
  /\ InitHandlers
NextRespondFirst ==
  \/ Receive(Webhooks, RespondTexts, {"text", "image"})
  \/ \E s \in Slots : Settle(s)
SpecRespondFirst ==
  InitRespondFirst /\ [][NextRespondFirst]_vars /\ \A s \in Slots : WF_vars(Settle(s))

(* ------------------------------------------------------------------ *)
(* Properties                                                          *)
(* ------------------------------------------------------------------ *)
Handler(s) == Dispatch(etext[s]).handler
Entered(s) == pc[s] \in {"generate", "update", "done"}
Translating(s) == call[s].kind \in {"forward", "reverse", "tone"}

\* C1: after any interleaving of the events of one user, a stored
\* last_output_en was generated from the stored last_source_ja.
C1_PairedFieldsWholeUnits ==
  (users # <<>> /\ ~FalsyOutput(users[1].last_output_en))
    => users[1].last_output_en.src = users[1].last_source_ja

\* C2: with events handled one at a time, last_output_en is never present
\* while last_source_ja is absent (null or empty).
C2_OutputImpliesSource ==
  (users # <<>> /\ ~FalsyOutput(users[1].last_output_en))
    => ~Falsy(users[1].last_source_ja)

\* C3: a tone-change or accept command on a profile without prior turns is
\* answered with the guidance message alone, calls the backend zero times
\* and leaves every field of the stored profile as it was read.
FreshContext(u) ==
  /\ u.last_source_ja = NullText /\ u.last_output_en = NoOutput
  /\ u.last_source_en = NullText /\ u.last_output_ja = NullText
  /\ u.last_mode = "null"
C3_GuardClauses ==
  \A s \in Slots :
    (Entered(s) /\ FreshContext(user[s])
       /\ Handler(s) \in {"handleToneChange", "handleAcceptCurrentEnglish"})
    => /\ pc[s] = "done"
       /\ genCalls[s] = 0
       /\ users = <<user[s]>>
       /\ replies[s] = << <<Static(IF Handler(s) = "handleToneChange"
                                   THEN "guidance_tone" ELSE "guidance_accept",
                                   "base")>> >>
\* the second of two such requests in a row has been answered
C3_Witness ==
  /\ pc[1] = "done" /\ Handler(1) = "handleToneChange" /\ FreshContext(user[1])
  /\ streak >= 2 /\ Len(replies[1]) = 1

\* C4: a tone-change after a forward turn regenerates from the stored
\* last_source_ja with the tone of the label, overwrites last_output_en with
\* the new output and keeps last_source_ja.
C4_ToneChangeRegenerates ==
  \A s \in Slots :
    (Entered(s) /\ Handler(s) = "handleToneChange" /\ ~Falsy(user[s].last_source_ja))
    => LET label == Dispatch(etext[s]).arg
       IN  /\ call[s].kind = "tone"
           /\ call[s].src = user[s].last_source_ja
           /\ Includes(label, "kajuaru") => call[s].tone = "casual"
           /\ (~Includes(label, "kajuaru") /\ Includes(label, "bijinesu"))
                => call[s].tone = "business"
           /\ pc[s] = "done" =>
                /\ users[1].last_source_ja = user[s].last_source_ja
                /\ users[1].last_output_en = result[s].en
                /\ result[s].en \in {EmptyOutput,
                                     Generated(user[s].last_source_ja, call[s].tone)}
                /\ replies[s] = << <<Msg("tone", result[s].en, NoReverseText, <<>>, "tone")>> >>
\* a tone-change replaced the output of the forward turn
C4_Witness ==
  /\ pc[1] = "done" /\ Handler(1) = "handleToneChange"
  /\ user[1].last_output_en = Generated(<<"j">>, "polite")
  /\ users[1].last_output_en = Generated(<<"j">>, "casual")
  /\ users[1].last_source_ja = <<"j">>

\* C5: handleEvent dispatches by first match in the order deferred-choice
\* prefixes, navigation tokens, settings tokens and SET_* prefixes, the
\* tone-change prefix, the accept phrase, and last the language detector.
IsDeferred(t) == StartsWith(t, "TRANSLATE_TO_EN:::") \/ StartsWith(t, "TRANSLATE_TO_JA:::")
IsNavigation(t) == Len(t) = 1 /\ t[1] \in NavTokens
IsSettings(t) ==
  \/ Len(t) = 1 /\ t[1] \in MenuTokens
  \/ \E q \in PrefixTokens \ {"TRANSLATE_TO_EN:::", "TRANSLATE_TO_JA:::"} : StartsWith(t, q)
IsToneChange(t) == StartsWith(t, "toon:")
IsAccept(t) == Includes(t, "kono-eibun-de")
NavigationHandlers == {"replyHelp", "replyHome", "replyUsage", "replySettings"}
SettingsHandlers ==
  {"replyLevelRoot", "replyLevelEiken", "handleSetLevelEiken", "replyUsageScene",
   "handleSetUsageScene", "replyToneSetting", "handleSetTone", "replyEnglishStyle",
   "handleSetEnglishStyle", "replyEasySetup", "handleEasyProfileSelect"}
DetectorHandlers == {"handleJaToEn", "handleEnToJa", "handleMixed", "replyUnsupported"}
C6_NoMutationOnBackendFailure ==
  \A s \in Slots :
    (answer[s].outcome = "throw" /\ Translating(s)) => users = <<user[s]>>
\* a tone-change failed and the artifact of the last success is still stored
C6_Witness ==
  /\ answer[1].outcome = "throw" /\ call[1].kind = "tone" /\ pc[1] = "thrown"
  /\ users # <<>> /\ users[1].last_output_en = Generated(<<"j">>, "polite")

\* C7: a forward, reverse or tone-change turn whose backend call throws
\* still ends with exactly one reply to the user.
C7_ReplyOnBackendFailure ==
  \A s \in Slots :
    (answer[s].outcome = "throw" /\ Translating(s) /\ Finished(pc[s]))
    => Len(replies[s]) = 1

\* C8: a handler that throws is contained in its event: the webhook request
\* still answers 200 and every other event of the batch gets its reply.
C8_FailureContained ==
  /\ res # "500"
  /\ (\A s \in Slots : Finished(pc[s]))
       => \A s \in Slots : pc[s] = "done" => Len(replies[s]) = 1

\* C9: a reverse-direction answer that does not parse as JSON after the
\* fences are stripped raises nothing: the stripped text is the translation,
\* the glossary is empty and the one reply carries that text and no glossary
\* section.
Unparsable(s) ==
  /\ call[s].kind = "reverse" /\ answer[s].outcome = "text"
  /\ ~JsonParses(StripFences(answer[s].raw))
C9_ParseFailureFallback ==
  \A s \in Slots :
    Unparsable(s) =>
      LET shown == [ja |-> StripFences(answer[s].raw), section |-> FALSE, lines |-> <<>>]
      IN  /\ failure[s] # "type"
          /\ result[s].text = shown
          /\ pc[s] = "update" => patch[s].last_output_ja = shown.ja
          /\ pc[s] = "done" =>
               replies[s] = << <<Msg("reverse", NoOutput, shown, <<>>, "base")>> >>
\* a fenced answer that is no JSON was replied as its bare text
C9_Witness ==
  /\ pc[1] = "done" /\ Unparsable(1)
  /\ answer[1].raw = <<"<fence>", "wayaku-bun", "<nl>", "<fence>">>
  /\ replies[1][1][1].rev.ja = <<"wayaku-bun">>

\* C10: whatever text the backend answers a reverse prompt with, handleEnToJa
\* raises no exception.
C10_ReverseNeverRaises ==
  \A s \in Slots :
    (call[s].kind = "reverse" /\ answer[s].outcome = "text") => failure[s] # "type"

\* C11: free text classified as mixed is answered by handleMixed with no
\* backend call and no write to the stored profile; the one reply offers
\* exactly the two choices, forward first and reverse second, and the payload
\* of each is its marker followed by the text as handleEvent passed it.
C11_MixedDisambiguation ==
  \A s \in Slots :
    (Entered(s) /\ Handler(s) = "handleMixed") =>
      /\ detectLanguage(etext[s]) = "mixed"
      /\ pc[s] = "done"
      /\ genCalls[s] = 0
      /\ users = <<user[s]>>
      /\ Len(replies[s]) = 1 /\ Len(replies[s][1]) = 1
      /\ replies[s][1][1].kind = "mixed"
      /\ replies[s][1][1].options =
            << <<"TRANSLATE_TO_EN:::">> \o etext[s], <<"TRANSLATE_TO_JA:::">> \o etext[s] >>
\* a mixed text was answered with the two choices while the profile holds
\* the artifact of an earlier forward turn
C11_Witness ==
  /\ pc[1] = "done" /\ etext[1] = <<"j", "e">> /\ Handler(1) = "handleMixed"
  /\ users # <<>> /\ ~FalsyOutput(users[1].last_output_en)
  /\ replies[1][1][1].options[2] = <<"TRANSLATE_TO_JA:::", "j", "e">>

\* C12: for every mixed text T, each of the two payloads handleMixed replies
\* with, sent back as the next message, is dispatched to the forward handler
\* (TRANSLATE_TO_EN) or the reverse handler (TRANSLATE_TO_JA) with exactly T
\* as its input, although the detector classifies T as mixed and whatever
\* command tokens T contains.
C12_ChoiceRoundTrip ==
  choice # <<>> =>
    LET T == Trim(probe)
    IN  /\ detectLanguage(T) = "mixed"
        /\ choice[1] \in {"TRANSLATE_TO_EN:::", "TRANSLATE_TO_JA:::"}
        /\ routed = Branch(IF choice[1] = "TRANSLATE_TO_EN:::"
                           THEN "handleJaToEn" ELSE "handleEnToJa", T)
\* the forward choice for a mixed text that itself contains the forward marker
C12_Witness ==
  /\ probe = <<"j", "TRANSLATE_TO_EN:::">>
  /\ choice = <<"TRANSLATE_TO_EN:::", "j", "TRANSLATE_TO_EN:::">>
  /\ routed = Branch("handleJaToEn", <<"j", "TRANSLATE_TO_EN:::">>)

\* C13: a turn whose text has no Japanese and no Latin character is
\* answered with the static supported-languages reply, calls the backend
\* zero times and changes nothing in the store during the turn.
Unsupported(s) == pc[s] # "idle" /\ detectLanguage(etext[s]) = "other"
UnsupportedReply(s) ==
  (Unsupported(s) /\ Entered(s)) =>
    /\ pc[s] = "done"
    /\ genCalls[s] = 0
    /\ replies[s] = << <<Static("replyUnsupported", "base")>> >>
C13_UnsupportedNoMutation ==
  [][\A s \in Slots : Unsupported(s) => (UnsupportedReply(s)' /\ users' = users)]_vars
\* C13, amended: the same, where the only change of the store during the
\* turn is the profile getOrCreateUser inserts for a user it has not seen;
\* the turn of a user with a profile changes nothing, and after the reply
\* the stored profile is the one getOrCreateUser returned.
C13_UnsupportedNoMutationOnceSeen ==
  [][\A s \in Slots :
       Unsupported(s) =>
         /\ UnsupportedReply(s)'
         /\ users # <<>> => users' = users
         /\ users = <<>> => users' \in {<<>>, <<NewUser>>}
         /\ Entered(s)' => users' = <<user'[s]>>]_vars
\* a user with a stored forward artifact got the static reply
C13_Witness ==
  /\ pc[1] = "done" /\ etext[1] = <<"x">>
  /\ replies[1] = << <<Static("replyUnsupported", "base")>> >>
  /\ users # <<>> /\ ~FalsyOutput(users[1].last_output_en)

\* C14: an accept command on a profile with a stored last_output_en is
\* answered with one replyMessage call of two messages: first the stored
\* last_output_en alone (no quick replies, nothing added), second the lesson.
Accepting(s) ==
  /\ Entered(s) /\ Handler(s) = "handleAcceptCurrentEnglish"
  /\ ~FalsyOutput(user[s].last_output_en)
CopyMessage(s) == Msg("copy", user[s].last_output_en, NoReverseText, <<>>, "none")
Retoning(s) ==
  /\ Entered(s) /\ Handler(s) = "handleToneChange"
  /\ ~Falsy(user[s].last_source_ja)
ToneChangeKeepsDefault ==
  \A s \in Slots :
    (pc[s] # "idle" /\ Handler(s) = "handleToneChange" /\ users # <<>>) =>
      (users' # <<>> /\ users'[1].tone_default = users[1].tone_default)
ForwardUsesDefault ==
  \A s \in Slots :
    (Entered(s) /\ call[s].kind = "forward") =>
      (users # <<>> /\ call[s].tone = users[1].tone_default)
C17_ToneOverrideOneCallOnly ==
  [][ToneChangeKeepsDefault]_vars /\ []ForwardUsesDefault
\* a forward call with the default tone while the stored artifact is the
\* output of a casual override
C17_Witness ==
  /\ pc[1] = "generate" /\ call[1].kind = "forward" /\ call[1].tone = "polite"
  /\ users # <<>> /\ users[1].tone_default = "polite"
  /\ users[1].last_output_en = Generated(<<"j">>, "casual")

\* C18: with events handled one after the other, a getOrCreateUser call for
\* an id without a row inserts one row with the defaults (level_type eiken,
\* level_value 2, usage_default CHAT_FRIEND, tone_default polite) and returns
\* it; a call for an id with a row inserts nothing and returns the stored
\* row; the table never holds more than one row for the id.
HasDefaults(u) ==
  /\ u.level_type = "eiken" /\ u.level_value = <<"2">>
  /\ u.usage_default = "CHAT_FRIEND" /\ u.tone_default = "polite"
GetOrCreateReturns ==
  \A s \in Slots :
    (pc[s] \in {"select", "insert"} /\ Entered(s)') =>
      /\ Len(users') = 1 /\ user'[s] = users'[1]
      /\ users = <<>> => (pc[s] = "insert" /\ HasDefaults(user'[s]))
      /\ users # <<>> => (pc[s] = "select" /\ users' = users)
C18_GetOrCreateTwice ==
  [][GetOrCreateReturns]_vars /\ [](Len(users) <= 1)
\* the second of two calls in a row returned the row the first one inserted
C18_Witness ==
  /\ pc[1] = "done" /\ Handler(1) = "handleAcceptCurrentEnglish" /\ streak = 2
  /\ Len(users) = 1 /\ user[1] = users[1]
  /\ HasDefaults(user[1]) /\ FreshContext(user[1])

\* C19: two events of an unseen user handled in parallel, both past the
\* select without a row: the table ends with at most one row, the event
\* whose insert is rejected has lost to the other one, whose insert went
\* through, and that one gets its reply unless the store or the backend
\* fails it later.
C19_ConcurrentFirstContact ==
  /\ Len(users) <= 1
  /\ \A s \in Slots :
       failure[s] = "conflict" =>
         \E t \in Slots \ {s} :
           /\ users # <<>>
           /\ pc[t] \in {"generate", "update", "done", "thrown"}
           /\ failure[t] \in {"none", "store", "backend", "type"}
           /\ (Finished(pc[t]) /\ failure[t] = "none") => Len(replies[t]) = 1
\* one event was rejected by the insert, the other one was answered
C19_Witness ==
  /\ failure[2] = "conflict" /\ pc[2] = "thrown"
  /\ pc[1] = "done" /\ Len(replies[1]) = 1 /\ Len(users) = 1
  /\ res = "500"

\* C20: in the user_settings revision a store call that fails crashes no
\* turn: getOrCreateUserSettings answers with DEFAULT_SETTINGS, and every
\* text event with a failed store call, the SET_* commands included, ends
\* with one reply unless the backend throws.
C20_StoreFailureDegrades ==
  /\ (storeFailed /\ DispatchUserSettings(stext) \notin UpdateBranches
        /\ spc \in {"complete", "done", "thrown"})
       => held = DEFAULT_SETTINGS
  /\ (storeFailed /\ spc \in {"done", "thrown"} /\ sfailure # "backend")
       => (spc = "done" /\ Len(sreplies) = 1)

\* C21: a leaf preference command passes exactly one field to updateUser,
\* changes no other field of the stored profile during its turn and ends
\* with one confirmation message.
LeafHandlers ==
  {"handleSetLevelEiken", "handleSetUsageScene", "handleSetTone",
   "handleSetEnglishStyle", "handleEasyProfileSelect"}
LeafTurn(s) == pc[s] # "idle" /\ Handler(s) \in LeafHandlers
LeafConfirms(s) ==
  (LeafTurn(s) /\ pc[s] = "done") =>
    /\ Len(replies[s]) = 1 /\ Len(replies[s][1]) = 1
    /\ replies[s][1][1].kind = Handler(s)
\* the stored profile keeps every field outside F over a step
KeepsOutside(F) ==
  /\ users' # <<>>
  /\ \A f \in DOMAIN NewUser \ F : users'[1][f] = users[1][f]
SettingFields(h) ==
  CASE h = "handleSetTone" -> {"tone_default"}
    [] h = "handleSetUsageScene" -> {"usage_default"}
    [] h = "handleSetEnglishStyle" -> {"english_style"}
    [] h = "handleSetLevelEiken" -> {"level_type", "level_value"}
    [] OTHER -> {"level_type", "level_value", "usage_default", "tone_default"}
C22_LevelValueValid ==
  users # <<>> =>
    /\ users[1].level_type \in {"eiken", "rough"}
    /\ users[1].level_type = "eiken" => users[1].level_value \in EikenValues
    /\ users[1].level_type = "rough" => users[1].level_value \in RoughValues

\* number of characters of the text that belong to the set C
RECURSIVE CountIn(_, _)
CountIn(text, C) ==
  IF text = <<>> THEN 0
  ELSE (IF Head(text) \in C THEN 1 ELSE 0) + CountIn(Tail(text), C)

\* the ratio policy: n native-script characters, t Latin letters;
\* t/(t+n) < 0.2 is 5t < t+n, t/(t+n) > 0.8 is 5t > 4(t+n)
RatioPolicy(text) ==
  LET n == CountIn(text, {"j"})
      t == CountIn(text, {"e", "E"})
  IN  IF n = 0 /\ t = 0 THEN "other"
      ELSE IF t = 0 THEN "ja"
      ELSE IF n = 0 THEN "en"
      ELSE IF 5 * t < t + n THEN "ja"
      ELSE IF 5 * t > 4 * (t + n) THEN "en"
      ELSE "mixed"

\* C23: detectLanguage implements the ratio policy: only native-script
\* characters give 'ja', only Latin letters 'en', both give 'ja' when the
\* Latin share is below 0.2, 'en' when it is above 0.8 and 'mixed'
\* otherwise, and neither gives 'other'.
C23_RatioPolicy ==
  routed # NoRouted =>
    /\ detectLanguage(Trim(probe)) = RatioPolicy(Trim(probe))
    /\ routed = DispatchFreeText(Trim(probe))

\* the text has a Latin letter and every Latin letter of it is upper-case
OnlyUpperLatin(text) ==
  /\ \E i \in 1..Len(text) : TokHasEn(text[i])
  /\ \A i \in 1..Len(text) : ~TokHasLowerEn(text[i])
HasJapanese(text) == \E i \in 1..Len(text) : TokHasJaLowercase(text[i])

\* C24 as stated: in the lowercase-only revision a message whose only Latin
\* letters are upper-case is never 'en' or 'mixed': with Japanese characters
\* it is 'ja' and goes to the forward handler, on its own it is 'other' and
\* gets the unsupported reply.
C24_AcronymForwardOrUnsupported ==
  (routed # NoRouted /\ OnlyUpperLatin(Trim(probe))) =>
    IF HasJapanese(Trim(probe))
      THEN /\ detectLanguageLowercase(Trim(probe)) = "ja"
           /\ routed.handler = "handleJaToEn"
      ELSE /\ detectLanguageLowercase(Trim(probe)) = "other"
           /\ routed.handler = "replyUnsupported"

\* the texts an earlier test of the chain takes before detectLanguage runs
CommandText(text) ==
  \/ text # <<>> /\ Head(text) \in PrefixTokens \cup {"toon:"}
  \/ Len(text) = 1 /\ text[1] \in NavTokens \cup MenuTokens \cup {PremiumToken}
  \/ Includes(text, "kono-eibun-de")

\* C24 (amended): such a message is classified 'ja' with Japanese characters
\* and 'other' without; when no command of the dispatch chain takes the text
\* first, it goes unchanged to the forward handler, respectively gets the
\* unsupported reply.
C24_AcronymNeverEnglish ==
  (routed # NoRouted /\ OnlyUpperLatin(Trim(probe))) =>
    /\ detectLanguageLowercase(Trim(probe)) =
         (IF HasJapanese(Trim(probe)) THEN "ja" ELSE "other")
    /\ ~CommandText(Trim(probe)) =>
         routed = Branch(IF HasJapanese(Trim(probe)) THEN "handleJaToEn"
                         ELSE "replyUnsupported", Trim(probe))

\* an acronym inside a Japanese sentence, sent to the forward handler
C24_Witness ==
  /\ probe = <<"j", "E">>
  /\ routed = Branch("handleJaToEn", <<"j", "E">>)

\* the event in slot s is no plain-text message
NonText(s) == ekind[s] \in {"image", "follow"}
Ignored(s) ==
  /\ pc[s] = "ignored"
  /\ reads[s] = 0 /\ writes[s] = 0 /\ genCalls[s] = 0
  /\ replies[s] = <<>>

\* C25 as stated: an event that is no plain-text message is ignored: no
\* profile read or creation, no generation-backend call, no reply; in the
\* users-table revision and in the user_settings revision.
C25_NonTextIgnored ==
  /\ \A s \in Slots : NonText(s) => Ignored(s)
  /\ skind \in {"image", "follow"} => (spc = "ignored" /\ sreplies = <<>>)

\* C25 (amended): the users-table revision ignores every event that is no
\* plain-text message and leaves the table as it is; the user_settings
\* revision ignores every such event except follow, which it answers with
\* one welcome reply after getOrCreateUserSettings and without a backend call.
C25_NonTextIgnoredExceptFollow ==
  /\ [](/\ \A s \in Slots : NonText(s) => Ignored(s)
        /\ skind = "image" => (spc = "ignored" /\ sreplies = <<>>)
        /\ skind = "follow" =>
             /\ spc \in {"read", "create", "done"}
             /\ sreplies = IF spc = "done"
                             THEN << <<SMsg("replyFollow", NoOutput)>> >> ELSE <<>>)
  /\ [][/\ (\A s \in Slots : pc'[s] \in {"idle", "ignored"}) => users' = users
        /\ skind' = "image" =>
             (settingsRows' = settingsRows /\ userContext' = userContext)]_vars

\* an image message ignored and answered 200 by the users-table revision, a
\* follow event greeted by the user_settings revision
C25_Witness ==
  /\ ekind[1] = "image" /\ pc[1] = "ignored" /\ res = "200"
  /\ users # <<>>
  /\ skind = "follow" /\ spc = "done" /\ settingsRows # <<>>

\* users-table revision: two events with equal text, handled with equal
\* rows, go to the same handler and agree on whether the backend is called
SameBranch ==
  \A s \in Slots :
    (Handled(s) /\ remembered.text = etext[s] /\ remembered.row = user[s]) =>
      /\ remembered.called = (genCalls[s] > 0)
      /\ (pc[s] = "done" /\ genCalls[s] = 0) =>
           replies[s][1][1].kind \in {"guidance_tone", "guidance_accept", Handler(s)}

\* user_settings revision: an event arrives
ArrivalStep ==
  /\ spc \in {"idle", "ignored", "done", "thrown"}
  /\ spc' \in {"done", "read", "write"}
  /\ held' = NullSettings
  /\ UNCHANGED <<botVars, laterVars>>
GuidedNow == spc' = "done" /\ sreplies' = << <<SMsg("guidance", NoOutput)>> >>

C27_IoCounts ==
  \A s \in Slots :
    ekind[s] = "text" =>
      /\ reads[s] <= 1
      /\ genCalls[s] <= 2
      /\ writes[s] <= 1
      /\ Len(replies[s]) <= 1
      /\ pc[s] \in {"done", "thrown"} => Len(replies[s]) = 1

\* the conditions of the dispatch chain, lines 2051-2126
ChoiceCond(text) ==
  StartsWith(text, "TRANSLATE_TO_EN:::") \/ StartsWith(text, "TRANSLATE_TO_JA:::")
NavCond(text) == Len(text) = 1 /\ text[1] \in NavTokens
SettingsCond(text) ==
  \/ Len(text) = 1 /\ text[1] \in MenuTokens
  \/ \E p \in PrefixTokens \ {"TRANSLATE_TO_EN:::", "TRANSLATE_TO_JA:::"} :
       StartsWith(text, p)
ToneCond(text) == StartsWith(text, "toon:")
AcceptCond(text) == Includes(text, "kono-eibun-de")
CondsHeld(text) ==
  {c \in {"choice", "nav", "settings", "tone", "accept"} :
     \/ c = "choice" /\ ChoiceCond(text)
     \/ c = "nav" /\ NavCond(text)
     \/ c = "settings" /\ SettingsCond(text)
     \/ c = "tone" /\ ToneCond(text)
     \/ c = "accept" /\ AcceptCond(text)}

\* C28 as stated: the dispatch conditions of handleEvent are mutually
\* exclusive: every text satisfies at most one of them.
C28_ConditionsExclusive ==
  routed # NoRouted => Cardinality(CondsHeld(Trim(probe))) <= 1

\* C28 (amended): the prefix and exact-text conditions exclude each other;
\* the accept substring can hold together with a prefix condition, and then
\* the earlier test of the chain decides: the accept handler runs only when
\* no other condition holds.
C28_FirstMatchWins ==
  routed # NoRouted =>
    LET conds == CondsHeld(Trim(probe))
    IN  /\ Cardinality(conds \ {"accept"}) <= 1
        /\ "choice" \in conds => routed.handler \in {"handleJaToEn", "handleEnToJa"}
        /\ "tone" \in conds => routed.handler = "handleToneChange"
        /\ "nav" \in conds =>
             routed.handler \in {"replyHelp", "replyHome", "replyUsage", "replySettings"}
        /\ "settings" \in conds =>
             routed.handler \notin {"handleAcceptCurrentEnglish", "handleToneChange"}
        /\ routed.handler = "handleAcceptCurrentEnglish" <=> conds = {"accept"}

\* a tone-change command whose label holds the accept phrase
C28_Witness ==
  /\ probe = <<"toon:", "kono-eibun-de">>
  /\ CondsHeld(Trim(probe)) = {"tone", "accept"}
  /\ routed = Branch("handleToneChange", <<"kono-eibun-de">>)

\* a free text of kanji/kana characters, handled with a fresh profile
JapaneseOnly(text) == text # <<>> /\ \A i \in 1..Len(text) : text[i] = "j"
FreshJapaneseTurn(s) ==
  /\ JapaneseOnly(etext[s])
  /\ user[s] = NewUser
  /\ pc[s] \in {"generate", "update", "done"}

\* C29: on a fresh profile a free text of Japanese characters only is 'ja'
\* and runs the forward handler with exactly one backend call; when it has
\* succeeded last_source_ja is the trimmed input, last_output_en the
\* generated text and last_mode 'JA_TO_EN', written in a single update.
C29_FreshForwardTurn ==
  /\ [](\A s \in Slots : FreshJapaneseTurn(s) =>
          /\ detectLanguage(etext[s]) = "ja"
          /\ Handler(s) = "handleJaToEn"
          /\ genCalls[s] = (IF pc[s] = "generate" THEN 0 ELSE 1)
          /\ pc[s] = "generate" => call[s] = Call("forward", etext[s], "polite")
          /\ pc[s] = "done" =>
               /\ replies[s] = << <<Msg("forward", result[s].en, NoReverseText,
                                        <<>>, "tone")>> >>
               /\ users[1].last_source_ja = etext[s]
               /\ users[1].last_output_en = result[s].en
               /\ users[1].last_mode = "JA_TO_EN")
  /\ [][\A s \in Slots :
          (FreshJapaneseTurn(s) /\ users # <<>> /\ users' # users) =>
            /\ pc[s] = "update" /\ pc'[s] = "done"
            /\ result[s].en = Content(Call("forward", etext[s], "polite"),
                                      answer[s].outcome)
            /\ users' = <<[users[1] EXCEPT !.last_source_ja = etext[s],
                                           !.last_output_en = result[s].en,
                                           !.last_mode = "JA_TO_EN"]>>]_vars

\* the first message of a user, ' jj' trimmed, translated and stored
C29_Witness ==
  /\ pc[1] = "done" /\ etext[1] = <<"j", "j">> /\ user[1] = NewUser
  /\ reads[1] = 1 /\ writes[1] = 2 /\ genCalls[1] = 1
  /\ users[1].last_source_ja = <<"j", "j">>
  /\ users[1].last_output_en = Generated(<<"j", "j">>, "polite")
  /\ users[1].last_mode = "JA_TO_EN"

ReverseFields == {"last_source_en", "last_output_ja", "last_mode"}
\* the event of slot s is handled with a row whose last turn was a reverse one
AfterReverse(s) ==
  /\ pc[s] \in {"generate", "update", "done"}
  /\ user[s].last_mode = "EN_TO_JA"

\* C30: a reverse turn writes last_source_en, last_output_ja and
\* last_mode = 'EN_TO_JA' in one update and leaves last_source_ja and
\* last_output_en as they were; a tone change or an accept after it works on
\* the stored forward pair.
C30_ReverseKeepsForwardPair ==
  /\ [][\A s \in Slots :
          (pc[s] # "idle" /\ Handler(s) = "handleEnToJa" /\ users # <<>>
             /\ users' # users) =>
            /\ pc[s] = "update" /\ pc'[s] = "done"
            /\ DOMAIN patch[s] = ReverseFields
            /\ patch[s].last_source_en = Dispatch(etext[s]).arg
            /\ patch[s].last_mode = "EN_TO_JA"
            /\ users' = <<[f \in DOMAIN users[1] |->
                             IF f \in ReverseFields THEN patch[s][f] ELSE users[1][f]]>>]_vars
  /\ [](\A s \in Slots :
          /\ (AfterReverse(s) /\ Handler(s) = "handleToneChange") =>
               IF Falsy(user[s].last_source_ja)
                 THEN pc[s] = "done" /\ genCalls[s] = 0
                 ELSE /\ call[s].kind = "tone"
                      /\ call[s].src = user[s].last_source_ja
          /\ (AfterReverse(s) /\ Handler(s) = "handleAcceptCurrentEnglish"
                /\ pc[s] = "done") =>
               IF FalsyOutput(user[s].last_output_en)
                 THEN genCalls[s] = 0
                 ELSE replies[s][1][1] =
                        Msg("copy", user[s].last_output_en, NoReverseText, <<>>, "none"))

\* a tone change right after a reverse turn, regenerating from the Japanese
\* text of the forward turn before it
C30_Witness ==
  /\ pc[1] = "generate" /\ Handler(1) = "handleToneChange"
  /\ user[1].last_mode = "EN_TO_JA"
  /\ user[1].last_source_en = <<"e">>
  /\ user[1].last_source_ja = <<"j">>
  /\ user[1].last_output_en = Generated(<<"j">>, "polite")
  /\ call[1] = Call("tone", <<"j">>, "casual")

HasTerm(g) == g.term # ""
HasTermAndText(g) == g.term # "" /\ (g.meaning_ja # "" \/ g.note_ja # "")
\* the lines are the entries kept, in order, the note shown when there is one
LinesAre(lines, kept) ==
  /\ Len(lines) = Len(kept)
  /\ \A k \in 1..Len(kept) :
       /\ lines[k].term = kept[k].term
       /\ lines[k].meaning = kept[k].meaning_ja
       /\ lines[k].hasNote <=> kept[k].note_ja # ""
       /\ lines[k].hasNote => lines[k].note = kept[k].note_ja

\* C31 as stated: the glossary lines of the reverse reply correspond
\* one-to-one, in order, to the entries with a non-empty term; an entry
\* without a term gives no line, and a line carries the note decoration only
\* when the note of its entry is non-empty; in either revision.
C31_GlossaryLines ==
  routed # NoRouted => LinesAre(routed.arg.lines, SelectSeq(probe, HasTerm))

\* C31 (amended): that holds in the latest revision; in the earlier one the
\* lines correspond to the entries with a term and a meaning or a note.
C31_GlossaryLinesPerRevision ==
  /\ routed.handler = "handleEnToJa" =>
       LinesAre(routed.arg.lines, SelectSeq(probe, HasTerm))
  /\ routed.handler = "handleEnToJa (earlier)" =>
       LinesAre(routed.arg.lines, SelectSeq(probe, HasTermAndText))

\* an entry without a term before an entry with a term and a note: one
\* line, with the note
C31_Witness ==
  /\ probe = <<Entry("", "enki-suru", "teinei"), Entry("if possible", "", "teinei")>>
  /\ routed.handler = "handleEnToJa"
  /\ Len(routed.arg.lines) = 1
  /\ routed.arg.lines[1].term = "if possible"
  /\ routed.arg.lines[1].hasNote

\* C32: a non-premium user causes at most FREE_MAX_REQUESTS_PER_DAY backend
\* calls per calendar day across forward, reverse, tone-change and accept
C32_DailyCallLimit == ~premium => dayCalls <= FREE_MAX_REQUESTS_PER_DAY

\* C33: in the level-label revision the reset command resets the level in
\* every state (a row with a level, a row without one, no row yet) and is
\* answered with the reset prompt; the next text that is no command is then
\* stored as the new level and is not translated
ResetHandled == IsReset(Trim(labelText))
C33_ResetInEveryState ==
  /\ [](ResetHandled => /\ labelReply = "reset_prompt"
                         /\ labelRows # <<>>
                         /\ labelRows[1] = NullLabel)
  /\ [][(/\ ResetHandled
          /\ ~IsHelp(Trim(labelText'))
          /\ ~IsReset(Trim(labelText')))
         => /\ labelRows' = <<Trim(labelText')>>
            /\ labelCalls' = 0
            /\ labelReply' = "registered"]_vars

\* C34: in the webhooks that answer first, HTTP 200 is sent without waiting
\* for any handler to finish, and each handler's failure is caught per
\* event: a handler that fails later neither changes the response nor keeps
\* the other events of the batch from being handled
InFlight(s) == cpc[s] \in {"settings", "echo", "generate", "reply"}
C34_RespondFirst ==
  /\ [](\A s \in Slots : cpc[s] # "idle" => sent[s] = "200")
  /\ [][\A s \in Slots :
          (cpc[s] # "failed" /\ cpc'[s] = "failed")
            => /\ sent' = sent
               /\ caught'[s]
               /\ \A t \in Slots \ {s} : cpc'[t] = cpc[t]]_vars
  /\ \A s \in Slots : [](InFlight(s) => <>(cpc[s] \in {"done", "failed"}))

\* one handler of a batch failed and was caught while the other still runs,
\* with 200 sent for both
C34_Witness ==
  /\ cpc[1] = "failed" /\ caught[1]
  /\ InFlight(2)
  /\ sent[1] = "200" /\ sent[2] = "200"

\* C35: the pair (lastSourceText, lastCandidate) of userContext is replaced
\* as a whole: after any interleaving of handleTranslate and handleRetone runs
\* of one user the stored lastCandidate is an output generated from the
\* stored lastSourceText (the empty string when the backend gave no content)
C35_PairConsistent ==
  HasContext(userContext) =>
    \/ userContext.lastCandidate = EmptyOutput
    \/ /\ userContext.lastCandidate.kind = "text"
       /\ userContext.lastCandidate.src = userContext.lastSourceText

\* a tone change that read the entry of one text wrote its pair after the
\* translation of another text had replaced the entry
C35_Witness ==
  /\ \E s \in Slots :
       /\ DispatchUserSettings(Trim(ctext[s])) = "handleRetone"
       /\ cpc[s] = "reply"
       /\ HasContext(cctx[s])
       /\ userContext.lastSourceText = cctx[s].lastSourceText
       /\ userContext.lastCandidate.kind = "text"
       /\ userContext.lastCandidate.tone = RetoneOverride(Trim(ctext[s]), DEFAULT_SETTINGS)
       /\ \E t \in Slots \ {s} :
            /\ DispatchUserSettings(Trim(ctext[t])) = "handleTranslate"
            /\ cpc[t] = "reply"
            /\ Trim(ctext[t]) # cctx[s].lastSourceText
            /\ cctx[s].lastCandidate.kind = "text"

\* C36: after any sequence or interleaving of events of one user last_mode
\* names the direction of the artifact persisted last: every write that
\* changes a last_* field is the update of a forward or tone-change turn
\* that sets last_output_en and leaves last_mode = JA_TO_EN, or the update of
\* a reverse turn that sets last_source_en and last_output_ja and leaves
\* last_mode = EN_TO_JA
LastFields(u) ==
  <<u.last_source_ja, u.last_output_en, u.last_source_en, u.last_output_ja, u.last_mode>>
WroteForward(s, u) ==
  /\ Handler(s) \in {"handleJaToEn", "handleToneChange"}
  /\ "last_output_en" \in DOMAIN patch[s]
  /\ u.last_output_en = patch[s].last_output_en
  /\ u.last_mode = "JA_TO_EN"
WroteReverse(s, u) ==
  /\ Handler(s) = "handleEnToJa"
  /\ "last_source_en" \in DOMAIN patch[s] /\ "last_output_ja" \in DOMAIN patch[s]
  /\ u.last_source_en = patch[s].last_source_en
  /\ u.last_output_ja = patch[s].last_output_ja
  /\ u.last_mode = "EN_TO_JA"
C36_ModeNamesLastWrite ==
  /\ [](\A i \in 1..Len(users) :
          /\ users[i].last_mode = "null" => LastFields(users[i]) = LastFields(NewUser)
          /\ users[i].last_mode = "JA_TO_EN" => users[i].last_output_en # NoOutput
          /\ users[i].last_mode = "EN_TO_JA" =>
                users[i].last_source_en # NullText /\ users[i].last_output_ja # NullText)
  /\ [][\A i \in 1..Len(users) :
          (i <= Len(users') /\ LastFields(users'[i]) # LastFields(users[i]))
            => \E s \in Slots :
                 /\ pc[s] = "update" /\ pc'[s] # "update"
                 /\ WroteForward(s, users'[i]) \/ WroteReverse(s, users'[i])]_vars

\* a reverse turn and a forward turn of one batch: the reverse turn wrote
\* last, over the forward turn's write
C36_Witness ==
  /\ users # <<>>
  /\ users[1].last_mode = "EN_TO_JA"
  /\ users[1].last_output_en.kind = "text"
  /\ \E s \in Slots, t \in Slots :
       /\ Handler(s) = "handleEnToJa" /\ pc[s] = "done" /\ ekind[s] = "text"
       /\ Handler(t) = "handleJaToEn" /\ pc[t] = "done" /\ ekind[t] = "text"
       /\ users[1].last_source_ja = etext[t]
       /\ users[1].last_source_en = etext[s]

\* C37: a preference command and a forward translation of one user handled
\* side by side lose neither update: once both have completed, in either
\* order, the row holds the chosen preference and the new last_source_ja,
\* last_output_en and last_mode
SetToneValue(text) ==
  IF text = <<"SET_TONE_", "BUSINESS">> THEN "business"
  ELSE IF text = <<"SET_TONE_", "CASUAL">> THEN "casual"
  ELSE "polite"
PairOfBatch(s, t) ==
  /\ s # t
  /\ \A r \in Slots \ {s, t} : ekind[r] = "none"
  /\ ekind[s] = "text" /\ Handler(s) = "handleSetTone" /\ pc[s] = "done"
  /\ ekind[t] = "text" /\ Handler(t) = "handleJaToEn" /\ pc[t] = "done"
C37_NeitherUpdateLost ==
  \A s \in Slots, t \in Slots :
    PairOfBatch(s, t) =>
      /\ Len(users) = 1
      /\ users[1].tone_default = SetToneValue(etext[s])
      /\ users[1].last_source_ja = etext[t]
      /\ users[1].last_output_en = result[t].en
      /\ users[1].last_mode = "JA_TO_EN"

\* both completed; the forward turn had read the row before the preference
\* was written (it generated with the earlier default tone)
C37_Witness ==
  \E s \in Slots, t \in Slots :
    /\ PairOfBatch(s, t)
    /\ etext[s] = <<"SET_TONE_", "BUSINESS">>
    /\ user[s].tone_default = "casual"
    /\ user[t].tone_default = "casual"
    /\ user[t].last_source_ja # etext[t]
    /\ users[1].last_output_en = Generated(etext[t], "casual")
    /\ users[1].tone_default = "business"

\* C38: a stored non-empty last_output_en is only ever replaced by another
\* non-empty generated output; an empty answer of the backend is not
\* persisted over the previous artifact
C38_OutputStaysNonEmpty ==
  [][\A i \in 1..Len(users) :
       (i <= Len(users') /\ users[i].last_output_en.kind = "text")
         => users'[i].last_output_en.kind = "text"]_vars

\* C39: in the user_settings revision a preference command (SET_LEVEL_EIKEN_*,
\* SET_LEVEL_TOEIC_*, SET_TONE_*, SET_VARIANT_*) received as the very first
\* message of a user id without a stored record still ends in a confirmation
\* reply, and afterwards a stored profile of the id carries the chosen value
\* (stated for every preference command handled while the store works)
PreferenceHandled ==
  /\ skind = "text"
  /\ DispatchUserSettings(stext) \in UpdateBranches
  /\ spc \in {"done", "thrown"}
  /\ ~storeFailed
C39_FirstPreferenceStored ==
  PreferenceHandled =>
    /\ spc = "done"
    /\ sreplies # <<>>
    /\ settingsRows # <<>>
    /\ settingsRows[1] = ApplyUpdates(settingsRows[1], SettingsUpdates(stext))

====
